---- MODULE Spec2Model ----
(***************************************************************************)
(* The chat orchestration of src/routes/message_routes.py: the handlers    *)
(* send_map_message and cancel_map_message, the background task            *)
(* process_chat_interaction_task, the two Redis keys they share            *)
(* (map_lock:<map_id> and messages:<map_id>:cancelled) and the table       *)
(* chat_completion_messages.  A handler is cut into steps at its Redis     *)
(* commands and at its awaits; each step is atomic, as one Redis command   *)
(* or one SQL statement is.                                                *)
(*                                                                         *)
(* Spec is the control of the chat: locks, cancellation, rounds, with the  *)
(* outcome of a tool left open.  ToolSpec follows the rounds of sequential *)
(* callers through the catalog and the handlers of add_layer_to_map,       *)
(* download_from_openstreetmap and run_geoprocessing_tool.  ReadSpec is    *)
(* get_map_messages over the logs a reader may find.  LogSpec adds the     *)
(* reader to concurrent callers, ExpirySpec states the expiry of the lock  *)
(* with its fairness, OrderSpec follows created_at through the query of    *)
(* get_all_map_messages, NoticeSpec the events of kue_ephemeral_action,    *)
(* LayerSpec the tools that write layers and styles, and ConnSpec the      *)
(* contexts of AsyncDatabaseConnection in src/structures.py.  QuerySpec    *)
(* follows query_postgis_database and its LIMIT test, MapsSpec has two     *)
(* live maps under concurrent callers, AuthSpec records what the handlers  *)
(* answer to the callers they authenticate, and PoolSpec is the first use  *)
(* of the two connection pools of src/structures.py.                       *)
(***************************************************************************)
EXTENDS Integers, Sequences, FiniteSets, TLC

\* ---- bounds of the exploration -----------------------------------------
MaxSends == 2       \* send_map_message requests issued in one behaviour
NumMaps == 2        \* map ids the callers name
ShortRounds == 1    \* rounds of a loop whose model responses are drawn freely
MaxCalls == 2       \* tool invocations in one assistant message

MaxContexts == 3    \* AsyncDatabaseConnection objects made in one behaviour
MaxCallers == 3     \* concurrent first callers of a function that returns a pool

\* ---- program constants -------------------------------------------------
RoundCeiling == 25  \* for i in range(25)

Reqs == 1..MaxSends
Maps == 1..NumMaps
NoMap == 0                      \* target of a request that named no live map
Owner == "owner"                \* owner_uuid of every live map
Users == {Owner, "stranger"}    \* session.get_user_id()
NoLock == 0                     \* redis.get(lock_key) is None
Contexts == 1..MaxContexts      \* the objects that get_async_db_connection() returns
Callers == 1..MaxCallers        \* coroutines or threads asking for a pool
None == 0                       \* self.conn before __aenter__
\* the QGIS service was not called: no response, nothing to ingest
NotCalled == [status_code |-> 0, upload_results |-> {}, ingest |-> "none"]
\* no handler has answered yet
NoAnswer == [route |-> "none", map_id |-> NoMap, user |-> "", status |-> "none"]
\* the response of a reader that has not asked yet
NoResponse == [status |-> "none", map_id |-> NoMap, messages |-> <<>>]

\* ---- messages ----------------------------------------------------------
NoId == <<>>
KnownTool == "add_layer_to_map"
UnknownTool == "no_such_tool"
NoLayer == ""                   \* an invocation without a layer_id argument
\* the shapes of one tool invocation the model may emit: the name of the
\* function and the layer_id of its arguments
CallKinds == { [name |-> KnownTool, layer_id |-> "L1"],
               [name |-> UnknownTool, layer_id |-> NoLayer] }
PlainCall == [name |-> KnownTool, layer_id |-> "L1"]

SeqsUpTo(S, n) == UNION { [1..k -> S] : k \in 0..n }

\* tool_call.id: the model's ids are unique; <<loop, round, position>>
WithIds(r, i, kinds) ==
    [k \in 1..Len(kinds) |->
        [id |-> <<r, i, k>>, name |-> kinds[k].name, layer_id |-> kinds[k].layer_id]]

\* a row of chat_completion_messages: role, tool_calls and tool_call_id of
\* its message_json; status and created_layers of the tool_result in the
\* content of a tool message; by, the task or request that inserted it
UserMessage(r) ==
    [role |-> "user", tool_calls |-> <<>>, tool_call_id |-> NoId, status |-> "",
     created_layers |-> <<>>, by |-> r]
SystemMessage(r) ==
    [role |-> "system", tool_calls |-> <<>>, tool_call_id |-> NoId, status |-> "",
     created_layers |-> <<>>, by |-> r]
AssistantMessage(r, calls) ==
    [role |-> "assistant", tool_calls |-> calls, tool_call_id |-> NoId, status |-> "",
     created_layers |-> <<>>, by |-> r]
ToolResultMessage(r, id, st, made) ==
    [role |-> "tool", tool_calls |-> <<>>, tool_call_id |-> id, status |-> st,
     created_layers |-> made, by |-> r]
ToolMessage(r, id, st) == ToolResultMessage(r, id, st, <<>>)

VARIABLES
    clients,        \* "concurrent" or "sequential": how the callers issue sends
    user_mundiai_maps,  \* ids of the rows with soft_deleted_at IS NULL
    sendpc,         \* per request: position in send_map_message / its response
    target,         \* per request: the map_id of an authenticated request
    pc,             \* per request: position of its process_chat_interaction_task
    round,          \* per task: rounds begun (the i of the for loop, plus one)
    pending,        \* per task: tool_calls of the current assistant message not yet dispatched
    lock,           \* per map: the key map_lock:<map_id> (NoLock, or the request that set it)
    cancelled,      \* per map: the key messages:<map_id>:cancelled
    log,            \* per map: rows of chat_completion_messages, in insertion order
    modelRequests,  \* history: per task, calls of chat.completions.create
    endReason,      \* history: per task, why it left the loop
    racedWith,      \* history: per request, requests between get and set when it read the lock
    cancelScope,    \* history: per map, the requests in progress when the flag was set
    staleCancel,    \* history: per task, it consumed a flag set before its request arrived
    errorNotices,   \* history: per task, calls of kue_notify_error
    map_layers,     \* rows of the table map_layers: layer_id and owner_uuid
    layers,         \* per map: the column layers of its row in user_mundiai_maps
    has_openstreetmap_api_key,  \* the OpenStreetMap provider is configured
    tools_payload,  \* per task: the catalog sent with its last model request
    qgis,           \* history: per task, the answer of the QGIS service to its last call
    listed,         \* the last response of get_map_messages
    chat_completion_messages,   \* per map: the rows with their created_at, in insertion order
    now,            \* the clock that stamps created_at
    fetched,        \* the last response of get_all_map_messages
    events,         \* the ephemeral events published, in order
    scope,          \* per task: the started event of the kue_ephemeral_action it is inside
    layer_styles,   \* rows of the table layer_styles: style_id, layer_id, created_by
    map_layer_styles,   \* rows of the table map_layer_styles: map_id, layer_id, style_id
    project_postgres_connections,   \* rows of that table: id and user_id
    ctx,            \* per AsyncDatabaseConnection: where its async with statement is
    conn,           \* per AsyncDatabaseConnection: self.conn
    exc,            \* per AsyncDatabaseConnection: how the body of the statement ended
    opened,         \* the connections that asyncpg.connect has returned
    closed,         \* the connections on which close() was called
    sent,           \* history: the queries handed to the external database, with their invocation
    async_connection_pool,  \* the global _async_connection_pool (None, or a pool)
    connection_pool,        \* the global _connection_pool (None, or a pool)
    poolpc,         \* per caller: where it is in the function that returns the pool
    got,            \* per caller: the pool it was given
    created,        \* the pools that create_pool and ThreadedConnectionPool have made
    answered        \* the last response of a handler that authenticates its caller

\* the tables and settings that the tools read and write, and the reader's response
\* the requests, their tasks and the two Redis keys
ctlvars == <<clients, user_mundiai_maps, sendpc, target, pc, round, pending, lock, cancelled, log,
             modelRequests, endReason, racedWith, cancelScope, staleCancel, errorNotices>>
tablevars == <<map_layers, layers, has_openstreetmap_api_key, tools_payload, qgis, listed>>
\* the state of the specifications that follow one part of the program alone
ordervars == <<chat_completion_messages, now, fetched>>
noticevars == <<events, scope>>
stylevars == <<layer_styles, map_layer_styles, project_postgres_connections>>
connvars == <<ctx, conn, exc, opened, closed>>
queryvars == <<sent>>
poolvars == <<async_connection_pool, connection_pool, poolpc, got, created>>
authvars == <<answered>>
auxvars == <<ordervars, noticevars, stylevars, connvars, queryvars, poolvars, authvars>>

dbvars == <<map_layers, layers, has_openstreetmap_api_key, tools_payload, qgis, listed, auxvars>>

vars == <<clients, user_mundiai_maps, sendpc, target, pc, round, pending, lock, cancelled, log,
          modelRequests, endReason, racedWith, cancelScope, staleCancel, errorNotices, dbvars>>

\* the parts of the state that Spec, ToolSpec and ReadSpec leave alone
AuxInit ==
    /\ chat_completion_messages = [m \in Maps |-> <<>>]
    /\ now = 0
    /\ fetched = NoResponse
    /\ events = <<>>
    /\ scope = [r \in Reqs |-> <<>>]
    /\ layer_styles = { [style_id |-> "S1", layer_id |-> "L1", created_by |-> Owner],
                        [style_id |-> "S2", layer_id |-> "L2", created_by |-> "stranger"] }
    /\ map_layer_styles = {}
    /\ project_postgres_connections = { [id |-> "P1", user_id |-> Owner],
                                        [id |-> "P2", user_id |-> "stranger"] }
    /\ ctx = [c \in Contexts |-> "new"]
    /\ conn = [c \in Contexts |-> None]
    /\ exc = [c \in Contexts |-> "none"]
    /\ opened = {}
    /\ closed = {}
    /\ sent = <<>>
    /\ async_connection_pool = None
    /\ connection_pool = None
    /\ poolpc = [c \in Callers |-> "start"]
    /\ got = [c \in Callers |-> None]
    /\ created = {}
    /\ answered = NoAnswer

Init ==
    /\ clients \in {"concurrent", "sequential"}
    /\ user_mundiai_maps = {1}
    /\ sendpc = [r \in Reqs |-> "idle"]
    /\ target = [r \in Reqs |-> NoMap]
    /\ pc = [r \in Reqs |-> "none"]
    /\ round = [r \in Reqs |-> 0]
    /\ pending = [r \in Reqs |-> <<>>]
    /\ lock = [m \in Maps |-> NoLock]
    /\ cancelled = [m \in Maps |-> FALSE]
    /\ log = [m \in Maps |-> <<>>]
    /\ modelRequests = [r \in Reqs |-> 0]
    /\ endReason = [r \in Reqs |-> ""]
    /\ racedWith = [r \in Reqs |-> {}]
    /\ cancelScope = [m \in Maps |-> {}]
    /\ staleCancel = [r \in Reqs |-> FALSE]
    /\ errorNotices = [r \in Reqs |-> 0]
    /\ map_layers = { [layer_id |-> "L1", owner_uuid |-> Owner],
                      [layer_id |-> "L2", owner_uuid |-> "stranger"] }
    /\ layers = [m \in Maps |-> <<>>]
    /\ has_openstreetmap_api_key = FALSE
    /\ tools_payload = [r \in Reqs |-> {}]
    /\ qgis = [r \in Reqs |-> NotCalled]
    /\ listed = NoResponse
    /\ AuxInit

SendDone(r) == sendpc[r] \in {"http404", "http401", "http409", "http500", "http200"}
TaskOver(r) == pc[r] \in {"done", "raised"}
Finished(r) == SendDone(r) /\ (sendpc[r] = "http200" => TaskOver(r))
\* a task that was scheduled and has not ended
Running(r) == pc[r] \notin {"none", "done", "raised"}


\* ---- send_map_message --------------------------------------------------
\* The callers: request r arrives after request r-1; sequential callers wait
\* for the previous request and its task to be over.
Arrives(r) ==
    /\ sendpc[r] = "idle"
    /\ \A q \in Reqs : q < r =>
          /\ sendpc[q] # "idle"
          /\ (clients = "sequential" => Finished(q))

\* lines 1664-1681: the map row is fetched; 404 without a live row, 401 for
\* a caller who is not its owner
send_authenticate(r) ==
    /\ Arrives(r)
    /\ \E m \in Maps, u \in Users :
          IF m \notin user_mundiai_maps
          THEN /\ sendpc' = [sendpc EXCEPT ![r] = "http404"]
               /\ UNCHANGED target
          ELSE IF u # Owner
          THEN /\ sendpc' = [sendpc EXCEPT ![r] = "http401"]
               /\ UNCHANGED target
          ELSE /\ sendpc' = [sendpc EXCEPT ![r] = "check"]
               /\ target' = [target EXCEPT ![r] = m]
    /\ UNCHANGED <<dbvars, errorNotices, clients, user_mundiai_maps, pc, round, pending, lock, cancelled, log,
                   modelRequests, endReason, racedWith, cancelScope, staleCancel>>

\* mutant: the lock is written before it is tested
send_get_lock_sets_first(r) ==
    /\ sendpc[r] = "check"
    /\ IF lock[target[r]] # NoLock
       THEN /\ sendpc' = [sendpc EXCEPT ![r] = "http409"]
            /\ lock' = [lock EXCEPT ![target[r]] = r]
            /\ UNCHANGED racedWith
       ELSE /\ sendpc' = [sendpc EXCEPT ![r] = "got"]
            /\ racedWith' = [racedWith EXCEPT ![r] =
                   {q \in Reqs \ {r} : sendpc[q] = "got" /\ target[q] = target[r]}]
            /\ UNCHANGED lock
    /\ UNCHANGED <<dbvars, errorNotices, clients, user_mundiai_maps, target, pc, round, pending, cancelled, log,
                   modelRequests, endReason, cancelScope, staleCancel>>

\* lines 1683-1689: redis.get(lock_key); 409 when the key is present
send_get_lock(r) ==
    /\ sendpc[r] = "check"
    /\ IF lock[target[r]] # NoLock
       THEN /\ sendpc' = [sendpc EXCEPT ![r] = "http409"]
            /\ UNCHANGED racedWith
       ELSE /\ sendpc' = [sendpc EXCEPT ![r] = "got"]
            /\ racedWith' = [racedWith EXCEPT ![r] =
                   {q \in Reqs \ {r} : sendpc[q] = "got" /\ target[q] = target[r]}]
    /\ UNCHANGED <<dbvars, errorNotices, clients, user_mundiai_maps, target, pc, round, pending, lock, cancelled, log,
                   modelRequests, endReason, cancelScope, staleCancel>>

\* mutant: one lock key for all maps
send_set_lock_global(r) ==
    /\ sendpc[r] = "got"
    /\ sendpc' = [sendpc EXCEPT ![r] = "locked"]
    /\ lock' = [m \in Maps |-> r]
    /\ UNCHANGED <<dbvars, errorNotices, clients, user_mundiai_maps, target, pc, round, pending, cancelled, log,
                   modelRequests, endReason, racedWith, cancelScope, staleCancel>>

\* line 1692: redis.set(lock_key, "locked", ex=60), whatever the key holds now
send_set_lock(r) ==
    /\ sendpc[r] = "got"
    /\ sendpc' = [sendpc EXCEPT ![r] = "locked"]
    /\ lock' = [lock EXCEPT ![target[r]] = r]
    /\ UNCHANGED <<dbvars, errorNotices, clients, user_mundiai_maps, target, pc, round, pending, cancelled, log,
                   modelRequests, endReason, racedWith, cancelScope, staleCancel>>

\* mutant: the system messages of earlier requests are deleted before the
\* new ones are inserted
send_update_messages_replaces(r) ==
    /\ sendpc[r] = "locked"
    /\ \E outcome \in {"fetch_raised", "insert_raised", "ok"}, withSystem \in BOOLEAN :
          LET m == target[r]
              sys == IF withSystem THEN <<SystemMessage(r)>> ELSE <<>>
              kept == SelectSeq(log[m], LAMBDA msg : msg.role # "system")
          IN  CASE outcome = "fetch_raised" ->
                      /\ ~withSystem
                      /\ sendpc' = [sendpc EXCEPT ![r] = "http500"]
                      /\ UNCHANGED <<log, pc>>
                [] outcome = "insert_raised" ->
                      /\ sendpc' = [sendpc EXCEPT ![r] = "http500"]
                      /\ log' = [log EXCEPT ![m] = kept \o sys]
                      /\ UNCHANGED pc
                [] outcome = "ok" ->
                      /\ sendpc' = [sendpc EXCEPT ![r] = "http200"]
                      /\ log' = [log EXCEPT ![m] = kept \o sys \o <<UserMessage(r)>>]
                      /\ pc' = [pc EXCEPT ![r] = "top"]
    /\ UNCHANGED <<dbvars, errorNotices, clients, user_mundiai_maps, target, round, pending, lock, cancelled,
                   modelRequests, endReason, racedWith, cancelScope, staleCancel>>

\* lines 1695-1768: the transcript and the map description are fetched, the
\* system messages of map_state and the user's message are inserted, the task
\* is added to background_tasks and the response is processing_started.
\* Any of the fetches or inserts may raise: the request fails, the lock stays.
send_update_messages(r) ==
    /\ sendpc[r] = "locked"
    /\ \E outcome \in {"fetch_raised", "insert_raised", "ok"}, withSystem \in BOOLEAN :
          LET m == target[r]
              sys == IF withSystem THEN <<SystemMessage(r)>> ELSE <<>>
          IN  CASE outcome = "fetch_raised" ->
                      /\ ~withSystem
                      /\ sendpc' = [sendpc EXCEPT ![r] = "http500"]
                      /\ UNCHANGED <<log, pc>>
                [] outcome = "insert_raised" ->
                      \* the insert of the user's message fails, after the system messages
                      /\ sendpc' = [sendpc EXCEPT ![r] = "http500"]
                      /\ log' = [log EXCEPT ![m] = @ \o sys]
                      /\ UNCHANGED pc
                [] outcome = "ok" ->
                      /\ sendpc' = [sendpc EXCEPT ![r] = "http200"]
                      /\ log' = [log EXCEPT ![m] = @ \o sys \o <<UserMessage(r)>>]
                      /\ pc' = [pc EXCEPT ![r] = "top"]
    /\ UNCHANGED <<dbvars, errorNotices, clients, user_mundiai_maps, target, round, pending, lock, cancelled,
                   modelRequests, endReason, racedWith, cancelScope, staleCancel>>

\* ---- cancel_map_message ------------------------------------------------
\* lines 1776-1802: 404/401 as in send; else redis.set(..., "true", ex=300)
cancel_map_message(m, u) ==
    IF m \notin user_mundiai_maps \/ u # Owner
    THEN UNCHANGED vars        \* HTTPException 404 or 401 before the redis.set
    ELSE /\ cancelled' = [cancelled EXCEPT ![m] = TRUE]
         /\ cancelScope' = [cancelScope EXCEPT ![m] =
                @ \cup {r \in Reqs : /\ target[r] = m
                                     /\ sendpc[r] \notin {"idle", "http409", "http500"}
                                     /\ ~TaskOver(r)}]
         /\ UNCHANGED <<dbvars, errorNotices, clients, user_mundiai_maps, sendpc, target, pc, round, pending, lock, log,
                        modelRequests, endReason, racedWith, staleCancel>>

\* ---- Redis expiry ------------------------------------------------------
\* mutant: the key is set without ex and stays until it is deleted
lock_never_expires(m) ==
    /\ lock[m] # NoLock
    /\ FALSE                \* no time to live: the key is never removed
    /\ lock' = [lock EXCEPT ![m] = NoLock]
    /\ UNCHANGED <<dbvars, errorNotices, clients, user_mundiai_maps, sendpc, target, pc, round, pending, cancelled, log,
                   modelRequests, endReason, racedWith, cancelScope, staleCancel>>

\* line 1692, ex=60: the lock key disappears when its time to live elapses
lock_expires(m) ==
    /\ lock[m] # NoLock
    /\ lock' = [lock EXCEPT ![m] = NoLock]
    /\ UNCHANGED <<dbvars, errorNotices, clients, user_mundiai_maps, sendpc, target, pc, round, pending, cancelled, log,
                   modelRequests, endReason, racedWith, cancelScope, staleCancel>>

\* line 1800, ex=300: the cancel flag disappears when its time to live elapses
cancelled_expires(m) ==
    /\ cancelled[m]
    /\ cancelled' = [cancelled EXCEPT ![m] = FALSE]
    /\ cancelScope' = [cancelScope EXCEPT ![m] = {}]
    /\ UNCHANGED <<dbvars, errorNotices, clients, user_mundiai_maps, sendpc, target, pc, round, pending, lock, log,
                   modelRequests, endReason, racedWith, staleCancel>>


\* ---- process_chat_interaction_task -------------------------------------
\* The model and the tools are bounded.  Only rounds 1..ShortRounds of a
\* task are free: there the model may raise, answer without tool_calls or ask
\* for tools.  With sequential callers it may ask for any tools and a dispatch
\* may go any way; with concurrent callers it asks for one plain call, which
\* succeeds.  Later rounds exist only in the first task of sequential
\* callers, whose model keeps asking for one plain call; every other task
\* gets a tool-free answer there.
LongTask(r) == clients = "sequential" /\ r = 1
Free(r) == round[r] <= ShortRounds
Varied(r) == Free(r) /\ clients = "sequential"

\* what chat.completions.create may answer in the current round of task r:
\* an exception, or an assistant message with these tool_calls
Answer(kinds) == [raised |-> FALSE, tool_calls |-> kinds]
ModelRaised == [raised |-> TRUE, tool_calls |-> <<>>]
Responses(r) ==
    IF Varied(r) THEN {ModelRaised} \cup {Answer(k) : k \in SeqsUpTo(CallKinds, MaxCalls)}
    ELSE IF Free(r) THEN {ModelRaised, Answer(<<>>), Answer(<<PlainCall>>)}
    ELSE IF LongTask(r) THEN {Answer(<<PlainCall>>)}
    ELSE {Answer(<<>>)}

\* how the dispatch of one invocation of a tool in the registry may go
Outcomes(r) ==
    IF Varied(r) THEN {"success", "error", "bad_json", "handler_raised", "append_raised"}
    ELSE {"success"}

Raise(r, why) ==
    /\ pc' = [pc EXCEPT ![r] = "raised"]
    /\ endReason' = [endReason EXCEPT ![r] = why]

Leave(r, why) ==
    /\ pc' = [pc EXCEPT ![r] = "unlock"]
    /\ endReason' = [endReason EXCEPT ![r] = why]

\* mutant: one iteration too many
task_check_cancelled_26(r) ==
    /\ pc[r] = "top"
    /\ IF round[r] = RoundCeiling + 1
       THEN /\ Leave(r, "budget")
            /\ UNCHANGED <<round, staleCancel>>
       ELSE IF cancelled[target[r]]
       THEN /\ pc' = [pc EXCEPT ![r] = "cancel"]
            /\ staleCancel' = [staleCancel EXCEPT ![r] = r \notin cancelScope[target[r]]]
            /\ UNCHANGED <<round, endReason>>
       ELSE /\ pc' = [pc EXCEPT ![r] = "fetch"]
            /\ round' = [round EXCEPT ![r] = @ + 1]
            /\ UNCHANGED <<endReason, staleCancel>>
    /\ UNCHANGED <<dbvars, errorNotices, clients, user_mundiai_maps, sendpc, target, pending, lock, cancelled, log,
                   modelRequests, racedWith, cancelScope>>

\* mutant: the flag of the wrong key is read, so a cancel is never seen
task_check_cancelled_blind(r) ==
    /\ pc[r] = "top"
    /\ IF round[r] = RoundCeiling
       THEN /\ Leave(r, "budget")
            /\ UNCHANGED <<round, staleCancel>>
       ELSE /\ pc' = [pc EXCEPT ![r] = "fetch"]
            /\ round' = [round EXCEPT ![r] = @ + 1]
            /\ UNCHANGED <<endReason, staleCancel>>
    /\ UNCHANGED <<dbvars, errorNotices, clients, user_mundiai_maps, sendpc, target, pending, lock, cancelled, log,
                   modelRequests, racedWith, cancelScope>>

\* lines 447-449: the for loop takes its next i, or is exhausted; then
\* redis.get of the cancel flag
task_check_cancelled(r) ==
    /\ pc[r] = "top"
    /\ IF round[r] = RoundCeiling
       THEN /\ Leave(r, "budget")
            /\ UNCHANGED <<round, staleCancel>>
       ELSE IF cancelled[target[r]]
       THEN /\ pc' = [pc EXCEPT ![r] = "cancel"]
            /\ staleCancel' = [staleCancel EXCEPT ![r] = r \notin cancelScope[target[r]]]
            /\ UNCHANGED <<round, endReason>>
       ELSE /\ pc' = [pc EXCEPT ![r] = "fetch"]
            /\ round' = [round EXCEPT ![r] = @ + 1]
            /\ UNCHANGED <<endReason, staleCancel>>
    /\ UNCHANGED <<dbvars, errorNotices, clients, user_mundiai_maps, sendpc, target, pending, lock, cancelled, log,
                   modelRequests, racedWith, cancelScope>>

\* lines 450-451: redis.delete of the cancel flag; break
task_delete_cancelled(r) ==
    /\ pc[r] = "cancel"
    /\ cancelled' = [cancelled EXCEPT ![target[r]] = FALSE]
    /\ cancelScope' = [cancelScope EXCEPT ![target[r]] = {}]
    /\ Leave(r, "cancelled")
    /\ UNCHANGED <<dbvars, errorNotices, clients, user_mundiai_maps, sendpc, target, round, pending, lock, log,
                   modelRequests, racedWith, staleCancel>>

\* lines 453-743: get_all_map_messages replays the log (it may raise), the
\* catalog is built and chat.completions.create is called with the transcript
task_fetch_messages(r) ==
    /\ pc[r] = "fetch"
    /\ \/ /\ pc' = [pc EXCEPT ![r] = "model"]
          /\ modelRequests' = [modelRequests EXCEPT ![r] = @ + 1]
          /\ UNCHANGED endReason
       \/ /\ Varied(r)
          /\ Raise(r, "fetch_raised")
          /\ UNCHANGED modelRequests
    /\ UNCHANGED <<dbvars, errorNotices, clients, user_mundiai_maps, sendpc, target, round, pending, lock, cancelled, log,
                   racedWith, cancelScope, staleCancel>>

\* mutant: a failed model request is retried once before the loop gives up
task_chat_completion_retries(r) ==
    /\ pc[r] = "model"
    /\ \E resp \in Responses(r), inserted \in BOOLEAN :
          IF resp.raised
          THEN /\ inserted
               /\ IF modelRequests[r] = round[r]
                  THEN /\ pc' = [pc EXCEPT ![r] = "fetch"]
                       /\ UNCHANGED <<errorNotices, endReason>>
                  ELSE /\ errorNotices' = [errorNotices EXCEPT ![r] = @ + 1]
                       /\ Leave(r, "model_raised")
               /\ UNCHANGED <<log, pending>>
          ELSE IF ~inserted
          THEN /\ Varied(r)
               /\ Raise(r, "append_raised")
               /\ UNCHANGED <<log, pending, errorNotices>>
          ELSE LET calls == WithIds(r, round[r], resp.tool_calls)
               IN  /\ log' = [log EXCEPT ![target[r]] =
                                  Append(@, AssistantMessage(r, calls))]
                   /\ UNCHANGED errorNotices
                   /\ IF calls = <<>>
                      THEN /\ Leave(r, "tool_free")
                           /\ UNCHANGED pending
                      ELSE /\ pc' = [pc EXCEPT ![r] = "dispatch"]
                           /\ pending' = [pending EXCEPT ![r] = calls]
                           /\ UNCHANGED endReason
    /\ UNCHANGED <<dbvars, clients, user_mundiai_maps, sendpc, target, round, lock, cancelled,
                   modelRequests, racedWith, cancelScope, staleCancel>>

\* lines 721-764: the model call raises (kue_notify_error; break), or its
\* assistant message is inserted (the insert may raise) and, without
\* tool_calls, the loop is left
task_chat_completion(r) ==
    /\ pc[r] = "model"
    /\ \E resp \in Responses(r), inserted \in BOOLEAN :
          IF resp.raised
          THEN /\ inserted
               /\ errorNotices' = [errorNotices EXCEPT ![r] = @ + 1]
               /\ Leave(r, "model_raised")
               /\ UNCHANGED <<log, pending>>
          ELSE IF ~inserted
          THEN /\ Varied(r)
               /\ Raise(r, "append_raised")
               /\ UNCHANGED <<log, pending, errorNotices>>
          ELSE LET calls == WithIds(r, round[r], resp.tool_calls)
               IN  /\ log' = [log EXCEPT ![target[r]] =
                                  Append(@, AssistantMessage(r, calls))]
                   /\ UNCHANGED errorNotices
                   /\ IF calls = <<>>
                      THEN /\ Leave(r, "tool_free")
                           /\ UNCHANGED pending
                      ELSE /\ pc' = [pc EXCEPT ![r] = "dispatch"]
                           /\ pending' = [pending EXCEPT ![r] = calls]
                           /\ UNCHANGED endReason
    /\ UNCHANGED <<dbvars, clients, user_mundiai_maps, sendpc, target, round, lock, cancelled,
                   modelRequests, racedWith, cancelScope, staleCancel>>

\* line 1104: the tool_result of a successful add_layer_to_map carries a
\* sentence in its status; the failures carry "error"
AddedToMap == "Layer added to map"
ResultStatus(outcome) == IF outcome = "success" THEN AddedToMap ELSE "error"

\* mutant: a result with status error ends the loop
task_tool_call_error_ends(r) ==
    /\ pc[r] = "dispatch"
    /\ LET call == Head(pending[r])
           rest == Tail(pending[r])
       IN  \E outcome \in Outcomes(r) :
                   IF outcome = "bad_json"
                   THEN /\ Raise(r, outcome)
                        /\ UNCHANGED <<log, pending>>
                   ELSE IF call.name # KnownTool
                   THEN /\ outcome = "success"
                        /\ Raise(r, "unknown_tool")
                        /\ UNCHANGED <<log, pending>>
                   ELSE IF outcome \in {"handler_raised", "append_raised"}
                   THEN /\ Raise(r, outcome)
                        /\ UNCHANGED <<log, pending>>
                   ELSE /\ log' = [log EXCEPT ![target[r]] =
                                      Append(@, ToolMessage(r, call.id, ResultStatus(outcome)))]
                        /\ pending' = [pending EXCEPT ![r] = rest]
                        /\ IF outcome = "error"
                           THEN Leave(r, "tool_error")
                           ELSE /\ pc' = [pc EXCEPT ![r] =
                                              IF rest = <<>> THEN "top" ELSE "dispatch"]
                                /\ UNCHANGED endReason
    /\ UNCHANGED <<dbvars, errorNotices, clients, user_mundiai_maps, sendpc, target, round, lock, cancelled,
                   modelRequests, racedWith, cancelScope, staleCancel>>


\* mutant: the invocations are dispatched from the last one to the first
task_tool_call_backwards(r) ==
    /\ pc[r] = "dispatch"
    /\ LET call == pending[r][Len(pending[r])]
           rest == SubSeq(pending[r], 1, Len(pending[r]) - 1)
       IN  \E outcome \in Outcomes(r) :
                   IF outcome = "bad_json"
                   THEN /\ Raise(r, outcome)
                        /\ UNCHANGED <<log, pending>>
                   ELSE IF call.name # KnownTool
                   THEN /\ outcome = "success"
                        /\ Raise(r, "unknown_tool")
                        /\ UNCHANGED <<log, pending>>
                   ELSE IF outcome \in {"handler_raised", "append_raised"}
                   THEN /\ Raise(r, outcome)
                        /\ UNCHANGED <<log, pending>>
                   ELSE /\ log' = [log EXCEPT ![target[r]] =
                                      Append(@, ToolMessage(r, call.id, ResultStatus(outcome)))]
                        /\ pending' = [pending EXCEPT ![r] = rest]
                        /\ pc' = [pc EXCEPT ![r] = IF rest = <<>> THEN "top" ELSE "dispatch"]
                        /\ UNCHANGED endReason
    /\ UNCHANGED <<dbvars, errorNotices, clients, user_mundiai_maps, sendpc, target, round, lock, cancelled,
                   modelRequests, racedWith, cancelScope, staleCancel>>

\* lines 766-1631: the next invocation of the assistant message.  Its
\* arguments are parsed (json.loads may raise), its name selects the branch
\* (no branch: HTTPException 400), the branch computes a result (or raises)
\* and the result is inserted as a tool message (the insert may raise).
task_tool_call(r) ==
    /\ pc[r] = "dispatch"
    /\ LET call == Head(pending[r])
           rest == Tail(pending[r])
       IN  \E outcome \in Outcomes(r) :
                   IF outcome = "bad_json"
                   THEN /\ Raise(r, outcome)
                        /\ UNCHANGED <<log, pending>>
                   ELSE IF call.name # KnownTool
                   THEN /\ outcome = "success"
                        /\ Raise(r, "unknown_tool")
                        /\ UNCHANGED <<log, pending>>
                   ELSE IF outcome \in {"handler_raised", "append_raised"}
                   THEN /\ Raise(r, outcome)
                        /\ UNCHANGED <<log, pending>>
                   ELSE /\ log' = [log EXCEPT ![target[r]] =
                                      Append(@, ToolMessage(r, call.id, ResultStatus(outcome)))]
                        /\ pending' = [pending EXCEPT ![r] = rest]
                        /\ pc' = [pc EXCEPT ![r] = IF rest = <<>> THEN "top" ELSE "dispatch"]
                        /\ UNCHANGED endReason
    /\ UNCHANGED <<dbvars, errorNotices, clients, user_mundiai_maps, sendpc, target, round, lock, cancelled,
                   modelRequests, racedWith, cancelScope, staleCancel>>

\* mutant: a cancelled task returns without unlocking
task_unlock_not_after_cancel(r) ==
    /\ pc[r] = "unlock"
    /\ pc' = [pc EXCEPT ![r] = "done"]
    /\ lock' = [lock EXCEPT ![target[r]] = IF endReason[r] = "cancelled" THEN @ ELSE NoLock]
    /\ UNCHANGED <<dbvars, errorNotices, clients, user_mundiai_maps, sendpc, target, round, pending, cancelled, log,
                   modelRequests, endReason, racedWith, cancelScope, staleCancel>>

\* lines 1635-1636: redis.delete(f"map_lock:{map_id}"), reached after the loop
task_unlock(r) ==
    /\ pc[r] = "unlock"
    /\ pc' = [pc EXCEPT ![r] = "done"]
    /\ lock' = [lock EXCEPT ![target[r]] = NoLock]
    /\ UNCHANGED <<dbvars, errorNotices, clients, user_mundiai_maps, sendpc, target, round, pending, cancelled, log,
                   modelRequests, endReason, racedWith, cancelScope, staleCancel>>

\* ---- the system ---------------------------------------------------------
Next ==
    \/ \E r \in Reqs : send_authenticate(r)
    \/ \E r \in Reqs : send_get_lock(r)
    \/ \E r \in Reqs : send_set_lock(r)
    \/ \E r \in Reqs : send_update_messages(r)
    \/ \E m \in Maps, u \in Users : cancel_map_message(m, u)
    \/ \E m \in Maps : lock_expires(m)
    \/ \E m \in Maps : cancelled_expires(m)
    \/ \E r \in Reqs : task_check_cancelled(r)
    \/ \E r \in Reqs : task_delete_cancelled(r)
    \/ \E r \in Reqs : task_fetch_messages(r)
    \/ \E r \in Reqs : task_chat_completion(r)
    \/ \E r \in Reqs : task_tool_call(r)
    \/ \E r \in Reqs : task_unlock(r)

Spec == Init /\ [][Next]_vars

\* lines 165-173: get_all_map_messages, the rows of the map by created_at.
\* log leaves created_at out: every insert is taken to be stamped later than
\* the one before, so the rows come in the order of their insertion (OrderSpec
\* follows the stamps)
get_all_map_messages(m) == log[m]

\* ---- the tools ----------------------------------------------------------
\* The rounds of a task with the catalog and the handlers of three tools in
\* detail: add_layer_to_map, download_from_openstreetmap and the tools of
\* get_tools(), which run_geoprocessing_tool delegates to the QGIS service.
\* The callers are sequential, no statement of the database fails and the
\* model asks for tools in the first rounds of a task.
ToolRounds == 2     \* rounds of the first task in which the model asks for tools

OsmTool == "download_from_openstreetmap"
\* get_tools(): one algorithm of the QGIS service stands for all of them
GeoTool == "native_buffer"
geoprocessing_function_names == {GeoTool}
\* the tools of tools_payload that are always listed and have no layer enum
FixedTools == {"new_layer_from_postgis", "create_layer_style", "set_active_style",
               "query_duckdb_sql", "query_postgis_database", "zoom_to_bounds"}
Placeholder == "NO_UNATTACHED_LAYERS"

RangeOf(seq) == {seq[i] : i \in 1..Len(seq)}
Count(seq, x) == Cardinality({i \in 1..Len(seq) : seq[i] = x})
OwnedRow(id) == [layer_id |-> id, owner_uuid |-> Owner]

\* lines 463-478: the layers of the caller that no map of the caller lists
\* (LIMIT 10 is beyond the layers of this model)
unattached_layers ==
    {row.layer_id : row \in
        {x \in map_layers : /\ x.owner_uuid = Owner
                            /\ ~\E m \in Maps : x.layer_id \in RangeOf(layers[m])}}

ToolEntry(name) == [name |-> name, has_enum |-> FALSE, enum |-> {}]

\* mutant: the placeholder enum is left in the entry
tools_payload_keeps_placeholder ==
    LET layer_enum == unattached_layers
        add_layer_tool == [name |-> KnownTool, has_enum |-> TRUE,
                           enum |-> IF layer_enum # {} THEN layer_enum ELSE {Placeholder}]
    IN  {ToolEntry(n) : n \in FixedTools} \cup {add_layer_tool}
            \cup (IF has_openstreetmap_api_key THEN {ToolEntry(OsmTool)} ELSE {})
            \cup {ToolEntry(n) : n \in geoprocessing_function_names}

\* mutant: add_layer_to_map is left out when there is nothing to choose from
tools_payload_drops_add_layer ==
    LET layer_enum == unattached_layers
        add_layer_tool == [name |-> KnownTool, has_enum |-> TRUE, enum |-> layer_enum]
    IN  {ToolEntry(n) : n \in FixedTools}
            \cup (IF layer_enum # {} THEN {add_layer_tool} ELSE {})
            \cup (IF has_openstreetmap_api_key THEN {ToolEntry(OsmTool)} ELSE {})
            \cup {ToolEntry(n) : n \in geoprocessing_function_names}

\* lines 480-718: the catalog.  add_layer_to_map is listed with the enum of the
\* unattached layers, or of the placeholder; the OpenStreetMap tool is
\* appended when its key is configured, then the tools of get_tools(); last,
\* with no unattached layer, the enum is popped from add_layer_to_map.
build_tools_payload ==
    LET layer_enum == unattached_layers
        add_layer_tool == [name |-> KnownTool, has_enum |-> TRUE,
                           enum |-> IF layer_enum # {} THEN layer_enum ELSE {Placeholder}]
        listed_tools == {ToolEntry(n) : n \in FixedTools} \cup {add_layer_tool}
                \cup (IF has_openstreetmap_api_key THEN {ToolEntry(OsmTool)} ELSE {})
                \cup {ToolEntry(n) : n \in geoprocessing_function_names}
    IN  IF layer_enum = {}
        THEN (listed_tools \ {add_layer_tool}) \cup {ToolEntry(KnownTool)}
        ELSE listed_tools

\* the invocations the model may emit in these rounds
ToolCallKinds ==
    { [name |-> KnownTool, layer_id |-> "L1"], [name |-> KnownTool, layer_id |-> "L2"],
      [name |-> OsmTool, layer_id |-> NoLayer], [name |-> GeoTool, layer_id |-> "L1"],
      [name |-> UnknownTool, layer_id |-> NoLayer] }
\* the first task asks for tools in ToolRounds rounds, with up to MaxCalls
\* invocations in the first; a later task asks for one invocation in one round
CallsIn(r) == IF r = 1 /\ round[r] = 1 THEN MaxCalls ELSE 1
ToolRoundsOf(r) == IF r = 1 THEN ToolRounds ELSE 1
ToolResponses(r) ==
    IF round[r] <= ToolRoundsOf(r)
    THEN {Answer(k) : k \in SeqsUpTo(ToolCallKinds, CallsIn(r))}
    ELSE {Answer(<<>>)}

\* generate_id(prefix="L"): the id of the layer made for invocation id
FreshLayer(id) == "N" \o ToString(id[1]) \o ToString(id[2]) \o ToString(id[3])

\* lines 453-718 and 732-743: the transcript is fetched, the catalog is built
\* from the tables as they are now and sent with the model request
tool_fetch_messages(r) ==
    /\ pc[r] = "fetch"
    /\ pc' = [pc EXCEPT ![r] = "model"]
    /\ tools_payload' = [tools_payload EXCEPT ![r] = build_tools_payload]
    /\ modelRequests' = [modelRequests EXCEPT ![r] = @ + 1]
    /\ UNCHANGED <<clients, user_mundiai_maps, sendpc, target, round, pending, lock, cancelled,
                   log, endReason, racedWith, cancelScope, staleCancel, errorNotices,
                   map_layers, layers, has_openstreetmap_api_key, qgis, listed, auxvars>>

\* lines 757-764: the assistant message is inserted; without tool_calls the
\* loop is left
tool_chat_completion(r) ==
    /\ pc[r] = "model"
    /\ \E resp \in ToolResponses(r) :
          LET calls == WithIds(r, round[r], resp.tool_calls)
          IN  /\ log' = [log EXCEPT ![target[r]] = Append(@, AssistantMessage(r, calls))]
              /\ IF calls = <<>>
                 THEN /\ Leave(r, "tool_free")
                      /\ UNCHANGED pending
                 ELSE /\ pc' = [pc EXCEPT ![r] = "dispatch"]
                      /\ pending' = [pending EXCEPT ![r] = calls]
                      /\ UNCHANGED endReason
    /\ UNCHANGED <<dbvars, errorNotices, clients, user_mundiai_maps, sendpc, target, round, lock,
                   cancelled, modelRequests, racedWith, cancelScope, staleCancel>>

\* add_chat_completion_message of a tool message, then the next tool_call of
\* the for loop at line 766, or the next round
AppendResult(r, st, made) ==
    /\ log' = [log EXCEPT ![target[r]] =
                  Append(@, ToolResultMessage(r, Head(pending[r]).id, st, made))]
    /\ pending' = [pending EXCEPT ![r] = Tail(@)]
    /\ pc' = [pc EXCEPT ![r] = IF Len(pending[r]) > 1 THEN "dispatch" ELSE "top"]

Dispatching(r, names) ==
    /\ pc[r] = "dispatch"
    /\ Head(pending[r]).name \in names

\* mutant: the layer is appended without the test NOT ($1 = ANY(layers))
dispatch_add_layer_to_map_appends(r) ==
    /\ Dispatching(r, {KnownTool})
    /\ LET id == Head(pending[r]).layer_id
       IN  IF OwnedRow(id) \notin map_layers
           THEN /\ AppendResult(r, "error", <<>>)
                /\ UNCHANGED layers
           ELSE /\ layers' = [layers EXCEPT ![target[r]] = Append(@, id)]
                /\ AppendResult(r, AddedToMap, <<>>)
    /\ UNCHANGED <<clients, user_mundiai_maps, sendpc, target, round, lock, cancelled,
                   modelRequests, endReason, racedWith, cancelScope, staleCancel, errorNotices,
                   map_layers, has_openstreetmap_api_key, tools_payload, qgis, listed, auxvars>>

\* lines 1061-1115: the branch of add_layer_to_map.  Without a row of
\* map_layers with this layer_id and the caller as owner the result is an
\* error; else the layer is renamed and appended to the layers of the map
\* unless it is among them (a NULL column counts as the empty list), and the
\* result carries a sentence as its status.
dispatch_add_layer_to_map(r) ==
    /\ Dispatching(r, {KnownTool})
    /\ LET id == Head(pending[r]).layer_id
       IN  IF OwnedRow(id) \notin map_layers
           THEN /\ AppendResult(r, "error", <<>>)
                /\ UNCHANGED layers
           ELSE /\ layers' = [layers EXCEPT ![target[r]] =
                                 IF id \in RangeOf(@) THEN @ ELSE Append(@, id)]
                /\ AppendResult(r, AddedToMap, <<>>)
    /\ UNCHANGED <<clients, user_mundiai_maps, sendpc, target, round, lock, cancelled,
                   modelRequests, endReason, racedWith, cancelScope, staleCancel, errorNotices,
                   map_layers, has_openstreetmap_api_key, tools_payload, qgis, listed, auxvars>>

\* lines 1332-1388: the branch of download_from_openstreetmap, taken for the
\* name whether or not the tool was listed.  The imported function answers
\* with an error, or (with a key) with a layer that is stored and not attached.
dispatch_download_from_openstreetmap(r) ==
    /\ Dispatching(r, {OsmTool})
    /\ \E downloaded \in {FALSE, has_openstreetmap_api_key} :
          IF downloaded
          THEN /\ map_layers' = map_layers \cup {OwnedRow(FreshLayer(Head(pending[r]).id))}
               /\ AppendResult(r, "success", <<>>)
          ELSE /\ AppendResult(r, "error", <<>>)
               /\ UNCHANGED map_layers
    /\ UNCHANGED <<clients, user_mundiai_maps, sendpc, target, round, lock, cancelled,
                   modelRequests, endReason, racedWith, cancelScope, staleCancel, errorNotices,
                   layers, has_openstreetmap_api_key, tools_payload, qgis, listed, auxvars>>

\* what the QGIS service may answer, and how the ingestion of its output goes
DeclaredOutputs == {"OUTPUT"}       \* the keys of output_layer_mappings
UploadReports ==
    { {}, {[param_name |-> "OUTPUT", uploaded |-> FALSE]},
      {[param_name |-> "OUTPUT", uploaded |-> TRUE]} }
Uploaded(upload_results, param_name) ==
    [param_name |-> param_name, uploaded |-> TRUE] \in upload_results
QgisAnswers ==
    {[status_code |-> 500, upload_results |-> {}, ingest |-> "none"]}
        \cup {[status_code |-> 200, upload_results |-> u, ingest |-> "none"] :
                 u \in UploadReports \ {{[param_name |-> "OUTPUT", uploaded |-> TRUE]}}}
        \cup {[status_code |-> 200,
               upload_results |-> {[param_name |-> "OUTPUT", uploaded |-> TRUE]},
               ingest |-> g] : g \in {"ok", "download_raised", "upload_raised"}}

\* internal_upload_layer(..., add_layer_to_map=True): the file becomes a row of
\* map_layers owned by the caller and its id is appended to the map's layers
internal_upload_layer(m, id) ==
    [rows |-> map_layers \cup {OwnedRow(id)}, attached |-> Append(layers[m], id)]

\* the error results of run_geoprocessing_tool (lines 325-346 and 394-411):
\* nothing was stored or attached
GeoError(m) ==
    [status |-> "error", created_layers |-> <<>>, rows |-> map_layers, attached |-> layers[m]]

\* mutant: the outputs are ingested without the test of upload_results
run_geoprocessing_tool_unchecked(call, m, answer) ==
    IF OwnedRow(call.layer_id) \notin map_layers THEN GeoError(m)
    ELSE IF answer.status_code # 200 THEN GeoError(m)
    ELSE IF answer.ingest \in {"download_raised", "upload_raised"} THEN GeoError(m)
    ELSE LET made == internal_upload_layer(m, FreshLayer(call.id))
         IN  [status |-> "success", created_layers |-> <<FreshLayer(call.id)>>,
              rows |-> made.rows, attached |-> made.attached]

\* mutant: the layer is ingested without being attached to the map
run_geoprocessing_tool_detached(call, m, answer) ==
    IF OwnedRow(call.layer_id) \notin map_layers THEN GeoError(m)
    ELSE IF answer.status_code # 200 THEN GeoError(m)
    ELSE IF \E param_name \in DeclaredOutputs : ~Uploaded(answer.upload_results, param_name)
    THEN GeoError(m)
    ELSE IF answer.ingest # "ok" THEN GeoError(m)
    ELSE LET made == internal_upload_layer(m, FreshLayer(call.id))
         IN  [status |-> "success", created_layers |-> <<FreshLayer(call.id)>>,
              rows |-> made.rows, attached |-> layers[m]]

\* lines 202-411: run_geoprocessing_tool for the invocation call on map m, the
\* service answering with answer.  A layer argument that is not a row of the
\* caller raises RecoverableToolCallError before the service is called; every
\* exception is turned into an error result at lines 394-411.
run_geoprocessing_tool(call, m, answer) ==
    IF OwnedRow(call.layer_id) \notin map_layers THEN GeoError(m)
    ELSE IF answer.status_code # 200 THEN GeoError(m)
    ELSE IF \E param_name \in DeclaredOutputs : ~Uploaded(answer.upload_results, param_name)
    THEN GeoError(m)
    ELSE IF answer.ingest # "ok" THEN GeoError(m)
    ELSE LET made == internal_upload_layer(m, FreshLayer(call.id))
         IN  [status |-> "success", created_layers |-> <<FreshLayer(call.id)>>,
              rows |-> made.rows, attached |-> made.attached]

\* lines 1616-1629: the branch of the tools of get_tools()
dispatch_geoprocessing(r) ==
    /\ Dispatching(r, geoprocessing_function_names)
    /\ \E answer \in IF OwnedRow(Head(pending[r]).layer_id) \in map_layers
                    THEN QgisAnswers ELSE {NotCalled} :
          LET tool_result == run_geoprocessing_tool(Head(pending[r]), target[r], answer)
          IN  /\ qgis' = [qgis EXCEPT ![r] = answer]
              /\ map_layers' = tool_result.rows
              /\ layers' = [layers EXCEPT ![target[r]] = tool_result.attached]
              /\ AppendResult(r, tool_result.status, tool_result.created_layers)
    /\ UNCHANGED <<clients, user_mundiai_maps, sendpc, target, round, lock, cancelled,
                   modelRequests, endReason, racedWith, cancelScope, staleCancel, errorNotices,
                   has_openstreetmap_api_key, tools_payload, listed, auxvars>>

\* lines 1630-1631: no branch has this name; HTTPException leaves the task
dispatch_unknown_tool(r) ==
    /\ pc[r] = "dispatch"
    /\ Head(pending[r]).name \notin {KnownTool, OsmTool} \cup geoprocessing_function_names
    /\ Raise(r, "unknown_tool")
    /\ UNCHANGED <<dbvars, errorNotices, clients, user_mundiai_maps, sendpc, target, round, pending,
                   lock, cancelled, log, modelRequests, racedWith, cancelScope, staleCancel>>

\* the state before the first request: the caller owns layer L1, which may be
\* on the map already; the OpenStreetMap key is configured or not
ToolInit ==
    /\ clients = "sequential"
    /\ user_mundiai_maps = {1}
    /\ sendpc = [r \in Reqs |-> "idle"]
    /\ target = [r \in Reqs |-> NoMap]
    /\ pc = [r \in Reqs |-> "none"]
    /\ round = [r \in Reqs |-> 0]
    /\ pending = [r \in Reqs |-> <<>>]
    /\ lock = [m \in Maps |-> NoLock]
    /\ cancelled = [m \in Maps |-> FALSE]
    /\ log = [m \in Maps |-> <<>>]
    /\ modelRequests = [r \in Reqs |-> 0]
    /\ endReason = [r \in Reqs |-> ""]
    /\ racedWith = [r \in Reqs |-> {}]
    /\ cancelScope = [m \in Maps |-> {}]
    /\ staleCancel = [r \in Reqs |-> FALSE]
    /\ errorNotices = [r \in Reqs |-> 0]
    /\ map_layers = {OwnedRow("L1"), [layer_id |-> "L2", owner_uuid |-> "stranger"]}
    /\ layers \in {[m \in Maps |-> <<>>], [m \in Maps |-> IF m = 1 THEN <<"L1">> ELSE <<>>]}
    /\ has_openstreetmap_api_key \in BOOLEAN
    /\ tools_payload = [r \in Reqs |-> {}]
    /\ qgis = [r \in Reqs |-> NotCalled]
    /\ listed = NoResponse
    /\ AuxInit

ToolNext ==
    \/ \E r \in Reqs : send_authenticate(r)
    \/ \E r \in Reqs : send_get_lock(r)
    \/ \E r \in Reqs : send_set_lock(r)
    \/ \E r \in Reqs : send_update_messages(r)
    \/ \E r \in Reqs : task_check_cancelled(r)
    \/ \E r \in Reqs : tool_fetch_messages(r)
    \/ \E r \in Reqs : tool_chat_completion(r)
    \/ \E r \in Reqs : dispatch_add_layer_to_map(r)
    \/ \E r \in Reqs : dispatch_download_from_openstreetmap(r)
    \/ \E r \in Reqs : dispatch_geoprocessing(r)
    \/ \E r \in Reqs : dispatch_unknown_tool(r)
    \/ \E r \in Reqs : task_unlock(r)

ToolSpec == ToolInit /\ [][ToolNext]_vars

\* ---- get_map_messages ---------------------------------------------------
MaxLog == 3         \* rows of chat_completion_messages the reader finds

\* lines 126-131: the list comprehension over all_messages["messages"]
RECURSIVE filtered_messages(_)
filtered_messages(all_messages) ==
    IF all_messages = <<>> THEN <<>>
    ELSE LET msg == Head(all_messages)
             rest == filtered_messages(Tail(all_messages))
         IN  IF msg.role \in {"user", "assistant"} /\ msg.tool_calls = <<>>
             THEN <<msg>> \o rest
             ELSE rest

\* mutant: the test of tool_calls is left out of the filter
get_map_messages_by_role(m, u) ==
    /\ listed' =
          IF m \notin user_mundiai_maps
          THEN [status |-> "http404", map_id |-> m, messages |-> <<>>]
          ELSE IF u # Owner
          THEN [status |-> "http401", map_id |-> m, messages |-> <<>>]
          ELSE [status |-> "http200", map_id |-> m,
                messages |-> SelectSeq(get_all_map_messages(m),
                                       LAMBDA msg : msg.role \in {"user", "assistant"})]
    /\ UNCHANGED <<clients, user_mundiai_maps, sendpc, target, pc, round, pending, lock, cancelled,
                   log, modelRequests, endReason, racedWith, cancelScope, staleCancel,
                   errorNotices, map_layers, layers, has_openstreetmap_api_key, tools_payload,
                   qgis, auxvars>>

\* lines 118-136: get_all_map_messages answers 404 or 401 (lines 153-163) or
\* with the rows, which are filtered; nothing is written
get_map_messages(m, u) ==
    /\ listed' =
          IF m \notin user_mundiai_maps
          THEN [status |-> "http404", map_id |-> m, messages |-> <<>>]
          ELSE IF u # Owner
          THEN [status |-> "http401", map_id |-> m, messages |-> <<>>]
          ELSE [status |-> "http200", map_id |-> m,
                messages |-> filtered_messages(get_all_map_messages(m))]
    /\ UNCHANGED <<clients, user_mundiai_maps, sendpc, target, pc, round, pending, lock, cancelled,
                   log, modelRequests, endReason, racedWith, cancelScope, staleCancel,
                   errorNotices, map_layers, layers, has_openstreetmap_api_key, tools_payload,
                   qgis, auxvars>>

\* the rows a reader may find: the messages that send_map_message and the
\* task insert, in any order and number up to MaxLog
MessageShapes ==
    { UserMessage(1), SystemMessage(1), AssistantMessage(1, <<>>),
      AssistantMessage(1, WithIds(1, 1, <<PlainCall>>)),
      ToolMessage(1, <<1, 1, 1>>, "error"), ToolMessage(1, <<1, 1, 1>>, AddedToMap) }

ReadInit ==
    /\ clients = "sequential"
    /\ user_mundiai_maps = {1}
    /\ sendpc = [r \in Reqs |-> "idle"]
    /\ target = [r \in Reqs |-> NoMap]
    /\ pc = [r \in Reqs |-> "none"]
    /\ round = [r \in Reqs |-> 0]
    /\ pending = [r \in Reqs |-> <<>>]
    /\ lock = [m \in Maps |-> NoLock]
    /\ cancelled = [m \in Maps |-> FALSE]
    /\ \E rows \in SeqsUpTo(MessageShapes, MaxLog) :
          log = [m \in Maps |-> IF m = 1 THEN rows ELSE <<>>]
    /\ modelRequests = [r \in Reqs |-> 0]
    /\ endReason = [r \in Reqs |-> ""]
    /\ racedWith = [r \in Reqs |-> {}]
    /\ cancelScope = [m \in Maps |-> {}]
    /\ staleCancel = [r \in Reqs |-> FALSE]
    /\ errorNotices = [r \in Reqs |-> 0]
    /\ map_layers = {OwnedRow("L1"), [layer_id |-> "L2", owner_uuid |-> "stranger"]}
    /\ layers = [m \in Maps |-> <<>>]
    /\ has_openstreetmap_api_key = FALSE
    /\ tools_payload = [r \in Reqs |-> {}]
    /\ qgis = [r \in Reqs |-> NotCalled]
    /\ listed = NoResponse
    /\ AuxInit

ReadNext == \E m \in Maps, u \in Users : get_map_messages(m, u)

ReadSpec == ReadInit /\ [][ReadNext]_vars

\* ---- the log under requests of every kind --------------------------------
\* Concurrent callers of send_map_message, cancel_map_message and
\* get_map_messages with the tasks of the accepted sends; the keys do not
\* expire.
LogInit == Init /\ clients = "concurrent"

LogNext ==
    \/ \E r \in Reqs : send_authenticate(r)
    \/ \E r \in Reqs : send_get_lock(r)
    \/ \E r \in Reqs : send_set_lock(r)
    \/ \E r \in Reqs : send_update_messages(r)
    \/ \E m \in Maps, u \in Users : cancel_map_message(m, u)
    \/ \E m \in Maps, u \in Users : get_map_messages(m, u)
    \/ \E r \in Reqs : task_check_cancelled(r)
    \/ \E r \in Reqs : task_delete_cancelled(r)
    \/ \E r \in Reqs : task_fetch_messages(r)
    \/ \E r \in Reqs : task_chat_completion(r)
    \/ \E r \in Reqs : task_tool_call(r)
    \/ \E r \in Reqs : task_unlock(r)

LogSpec == LogInit /\ [][LogNext]_vars

\* ---- the expiry of the lock ------------------------------------------------
\* Sequential callers and their tasks, without cancel requests.  Redis
\* removes a key that was set with ex=60 once its time to live has elapsed,
\* unless the key was deleted or set again before: the expiry of a key that
\* stays present is not put off for ever.
ExpiryInit == Init /\ clients = "sequential"

ExpiryNext ==
    \/ \E r \in Reqs : send_authenticate(r)
    \/ \E r \in Reqs : send_get_lock(r)
    \/ \E r \in Reqs : send_set_lock(r)
    \/ \E r \in Reqs : send_update_messages(r)
    \/ \E m \in Maps : lock_expires(m)
    \/ \E r \in Reqs : task_check_cancelled(r)
    \/ \E r \in Reqs : task_fetch_messages(r)
    \/ \E r \in Reqs : task_chat_completion(r)
    \/ \E r \in Reqs : task_tool_call(r)
    \/ \E r \in Reqs : task_unlock(r)

ExpirySpec ==
    ExpiryInit /\ [][ExpiryNext]_vars /\ \A m \in Maps : WF_vars(lock_expires(m))

\* ---- chat_completion_messages and its clock -----------------------------
\* The table with the column created_at, which the other specifications leave
\* out: there every insert is stamped later than the one before, and the
\* order of the query is the order of insertion.
MaxRows == 3        \* rows inserted in one behaviour
MaxClock == 2       \* readings of the clock

RowCount == Len(chat_completion_messages[1]) + Len(chat_completion_messages[2])

\* lines 432-444 (and 1725-1750): INSERT INTO chat_completion_messages
\* (map_id, sender_id, message_json); the server assigns the next id and
\* stamps created_at with the reading of its clock
add_chat_completion_message(m, message) ==
    /\ RowCount < MaxRows
    /\ chat_completion_messages' = [chat_completion_messages EXCEPT ![m] =
           Append(@, [id |-> RowCount + 1, message_json |-> message, created_at |-> now])]
    /\ UNCHANGED <<ctlvars, tablevars, noticevars, stylevars, connvars, queryvars, poolvars, authvars, now, fetched>>

\* the clock moves on between two statements, or does not: two inserts of
\* different connections may read it within one tick
clock_ticks ==
    /\ now < MaxClock
    /\ now' = now + 1
    /\ UNCHANGED <<ctlvars, tablevars, noticevars, stylevars, connvars, queryvars, poolvars, authvars, chat_completion_messages, fetched>>

\* lines 165-173: SELECT ... WHERE map_id = $1 ORDER BY created_at ASC.  The
\* rows come in some order in which created_at does not decrease; among rows
\* of equal created_at the statement leaves the order open.
db_messages(m) ==
    LET rows == chat_completion_messages[m]
        n == Len(rows)
        orders == {f \in [1..n -> 1..n] :
                      /\ \A i, j \in 1..n : i # j => f[i] # f[j]
                      /\ \A i, j \in 1..n :
                            i < j => rows[f[i]].created_at <= rows[f[j]].created_at}
    IN  {[i \in 1..n |-> rows[f[i]]] : f \in orders}

\* lines 137-188: get_all_map_messages answers 404 without a live map, 401
\* for a caller who is not its owner, else with the rows of db_messages
fetch_all_map_messages(m, u) ==
    /\ IF m \notin user_mundiai_maps
       THEN fetched' = [status |-> "http404", map_id |-> m, messages |-> <<>>]
       ELSE IF u # Owner
       THEN fetched' = [status |-> "http401", map_id |-> m, messages |-> <<>>]
       ELSE \E messages \in db_messages(m) :
               fetched' = [status |-> "http200", map_id |-> m, messages |-> messages]
    /\ UNCHANGED <<ctlvars, tablevars, noticevars, stylevars, connvars, queryvars, poolvars, authvars, chat_completion_messages, now>>

OrderInit == Init /\ clients = "sequential" /\ user_mundiai_maps = {1}

OrderNext ==
    \/ \E m \in {1}, message \in {UserMessage(1), AssistantMessage(1, <<>>)} :
          add_chat_completion_message(m, message)
    \/ clock_ticks
    \/ \E m \in Maps, u \in Users : fetch_all_map_messages(m, u)

OrderSpec == OrderInit /\ [][OrderNext]_vars

\* ---- the ephemeral events ------------------------------------------------
\* The rounds of a task with the events of kue_ephemeral_action around the
\* model request and around the tools add_layer_to_map and the tools of
\* get_tools().  The callers are sequential, the keys do not expire and any
\* statement of the task may raise.
NoticeCallKinds ==
    { [name |-> KnownTool, layer_id |-> "L1"], [name |-> GeoTool, layer_id |-> "L1"] }
NoticeResponses(r) ==
    IF round[r] <= ShortRounds
    THEN {Answer(k) : k \in SeqsUpTo(NoticeCallKinds, MaxCalls)}
    ELSE {Answer(<<>>)}

\* the actions that task r has announced
ActionsOf(r) ==
    {i \in 1..Len(events) : events[i].status = "started" /\ events[i].action_id[1] = r}

\* the payload of an ephemeral event; action_id is a fresh identifier, here
\* the task and the number of the action among its actions
EphemeralEvent(m, id, action, st) ==
    [map_id |-> m, ephemeral |-> TRUE, action_id |-> id, action |-> action,
     status |-> st, timestamp |-> now]

\* async with kue_ephemeral_action(map_id, action): on entry the started
\* event is published
kue_ephemeral_action_enter(r, action) ==
    LET started == EphemeralEvent(target[r], <<r, Cardinality(ActionsOf(r)) + 1>>,
                                  action, "started")
    IN  /\ events' = Append(events, started)
        /\ scope' = [scope EXCEPT ![r] = <<started>>]

\* on exit, however the body is left, the finished event with the same
\* action_id is published
kue_ephemeral_action_exit(r) ==
    /\ events' = Append(events, [scope[r][1] EXCEPT !.status = "finished"])
    /\ scope' = [scope EXCEPT ![r] = <<>>]

\* lines 453-718: the transcript is fetched and the catalog is built; a
\* statement may raise
notice_fetch_messages(r) ==
    /\ pc[r] = "fetch"
    /\ \/ /\ pc' = [pc EXCEPT ![r] = "think"]
          /\ UNCHANGED endReason
       \/ Raise(r, "fetch_raised")
    /\ UNCHANGED <<tablevars, ordervars, stylevars, connvars, queryvars, poolvars, authvars, noticevars, clients, user_mundiai_maps, sendpc, target,
                   round, pending, lock, cancelled, log, modelRequests, racedWith, cancelScope,
                   staleCancel, errorNotices>>

\* line 721: async with kue_ephemeral_action(map_id, "Kue is thinking...")
notice_thinking(r) ==
    /\ pc[r] = "think"
    /\ pc' = [pc EXCEPT ![r] = "model"]
    /\ kue_ephemeral_action_enter(r, "Kue is thinking...")
    /\ UNCHANGED <<tablevars, ordervars, stylevars, connvars, queryvars, poolvars, authvars, clients, user_mundiai_maps, sendpc, target, round,
                   pending, lock, cancelled, log, modelRequests, endReason, racedWith,
                   cancelScope, staleCancel, errorNotices>>

\* mutant: the events are published by two calls around the try statement,
\* and the break of the except branch skips the second
notice_chat_completion_unpaired(r) ==
    /\ pc[r] = "model"
    /\ \E way \in {"args_raised", "create_raised", "append_raised", "answered"} :
          CASE way = "args_raised" ->
                  /\ kue_ephemeral_action_exit(r)
                  /\ Raise(r, "args_raised")
                  /\ UNCHANGED <<log, pending, modelRequests, errorNotices>>
            [] way = "create_raised" ->
                  /\ scope' = [scope EXCEPT ![r] = <<>>]
                  /\ modelRequests' = [modelRequests EXCEPT ![r] = @ + 1]
                  /\ errorNotices' = [errorNotices EXCEPT ![r] = @ + 1]
                  /\ Leave(r, "model_raised")
                  /\ UNCHANGED <<log, pending, events>>
            [] way = "append_raised" ->
                  /\ kue_ephemeral_action_exit(r)
                  /\ modelRequests' = [modelRequests EXCEPT ![r] = @ + 1]
                  /\ Raise(r, "append_raised")
                  /\ UNCHANGED <<log, pending, errorNotices>>
            [] way = "answered" ->
                  \E resp \in NoticeResponses(r) :
                     LET calls == WithIds(r, round[r], resp.tool_calls)
                     IN  /\ kue_ephemeral_action_exit(r)
                         /\ modelRequests' = [modelRequests EXCEPT ![r] = @ + 1]
                         /\ log' = [log EXCEPT ![target[r]] =
                                        Append(@, AssistantMessage(r, calls))]
                         /\ UNCHANGED errorNotices
                         /\ IF calls = <<>>
                            THEN /\ Leave(r, "tool_free")
                                 /\ UNCHANGED pending
                            ELSE /\ pc' = [pc EXCEPT ![r] = "dispatch"]
                                 /\ pending' = [pending EXCEPT ![r] = calls]
                                 /\ UNCHANGED endReason
    /\ UNCHANGED <<tablevars, ordervars, stylevars, connvars, queryvars, poolvars, authvars, clients, user_mundiai_maps, sendpc, target, round, lock,
                   cancelled, racedWith, cancelScope, staleCancel>>

\* lines 722-764, the body of the thinking action and what follows it:
\* chat_args.get_args may raise; chat.completions.create is called and raises
\* (kue_notify_error; break) or answers; the block is left, which publishes
\* the finished event; the assistant message is inserted (the insert may
\* raise) and, without tool_calls, the loop is left
notice_chat_completion(r) ==
    /\ pc[r] = "model"
    /\ kue_ephemeral_action_exit(r)
    /\ \E way \in {"args_raised", "create_raised", "append_raised", "answered"} :
          CASE way = "args_raised" ->
                  /\ Raise(r, "args_raised")
                  /\ UNCHANGED <<log, pending, modelRequests, errorNotices>>
            [] way = "create_raised" ->
                  /\ modelRequests' = [modelRequests EXCEPT ![r] = @ + 1]
                  /\ errorNotices' = [errorNotices EXCEPT ![r] = @ + 1]
                  /\ Leave(r, "model_raised")
                  /\ UNCHANGED <<log, pending>>
            [] way = "append_raised" ->
                  /\ modelRequests' = [modelRequests EXCEPT ![r] = @ + 1]
                  /\ Raise(r, "append_raised")
                  /\ UNCHANGED <<log, pending, errorNotices>>
            [] way = "answered" ->
                  \E resp \in NoticeResponses(r) :
                     LET calls == WithIds(r, round[r], resp.tool_calls)
                     IN  /\ modelRequests' = [modelRequests EXCEPT ![r] = @ + 1]
                         /\ log' = [log EXCEPT ![target[r]] =
                                        Append(@, AssistantMessage(r, calls))]
                         /\ UNCHANGED errorNotices
                         /\ IF calls = <<>>
                            THEN /\ Leave(r, "tool_free")
                                 /\ UNCHANGED pending
                            ELSE /\ pc' = [pc EXCEPT ![r] = "dispatch"]
                                 /\ pending' = [pending EXCEPT ![r] = calls]
                                 /\ UNCHANGED endReason
    /\ UNCHANGED <<tablevars, ordervars, stylevars, connvars, queryvars, poolvars, authvars, clients, user_mundiai_maps, sendpc, target, round, lock,
                   cancelled, racedWith, cancelScope, staleCancel>>

\* line 1065: add_layer_to_map enters its action at once.  Lines 202-316:
\* run_geoprocessing_tool prepares its request and enters its action, or an
\* exception on the way is turned into an error result (lines 394-411) and no
\* action is announced.
notice_tool_enter(r) ==
    /\ pc[r] = "dispatch"
    /\ \/ /\ kue_ephemeral_action_enter(r,
                 IF Head(pending[r]).name = KnownTool
                 THEN "Adding layer to map..." ELSE "QGIS running...")
          /\ pc' = [pc EXCEPT ![r] = "tool"]
          /\ UNCHANGED <<log, pending>>
       \/ /\ Head(pending[r]).name \in geoprocessing_function_names
          /\ AppendResult(r, "error", <<>>)
          /\ UNCHANGED noticevars
    /\ UNCHANGED <<tablevars, ordervars, stylevars, connvars, queryvars, poolvars, authvars, clients, user_mundiai_maps, sendpc, target, round, lock,
                   cancelled, modelRequests, endReason, racedWith, cancelScope, staleCancel,
                   errorNotices>>

\* lines 1068-1115: the body of the action of add_layer_to_map computes an
\* error result or a success and inserts it; a statement of the body may
\* raise, which leaves the task.  Lines 317-411: the body of the action of
\* run_geoprocessing_tool returns an error result early, raises (the except
\* branch returns an error result) or returns a success.  The block is left
\* in each case, which publishes the finished event.
notice_tool_exit(r) ==
    /\ pc[r] = "tool"
    /\ kue_ephemeral_action_exit(r)
    /\ \E way \in {"success", "error", "raised"} :
          IF way = "raised" /\ Head(pending[r]).name = KnownTool
          THEN /\ Raise(r, "handler_raised")
               /\ UNCHANGED <<log, pending>>
          ELSE /\ AppendResult(r, IF way # "success" THEN "error"
                                  ELSE IF Head(pending[r]).name = KnownTool THEN AddedToMap
                                  ELSE "success", <<>>)
               /\ UNCHANGED endReason
    /\ UNCHANGED <<tablevars, ordervars, stylevars, connvars, queryvars, poolvars, authvars, clients, user_mundiai_maps, sendpc, target, round, lock,
                   cancelled, modelRequests, racedWith, cancelScope, staleCancel, errorNotices>>

NoticeInit == Init /\ clients = "sequential"

NoticeNext ==
    \/ \E r \in Reqs : send_authenticate(r)
    \/ \E r \in Reqs : send_get_lock(r)
    \/ \E r \in Reqs : send_set_lock(r)
    \/ \E r \in Reqs : send_update_messages(r)
    \/ \E m \in Maps, u \in Users : cancel_map_message(m, u)
    \/ \E r \in Reqs : task_check_cancelled(r)
    \/ \E r \in Reqs : task_delete_cancelled(r)
    \/ \E r \in Reqs : notice_fetch_messages(r)
    \/ \E r \in Reqs : notice_thinking(r)
    \/ \E r \in Reqs : notice_chat_completion(r)
    \/ \E r \in Reqs : notice_tool_enter(r)
    \/ \E r \in Reqs : notice_tool_exit(r)
    \/ \E r \in Reqs : task_unlock(r)

NoticeSpec == NoticeInit /\ [][NoticeNext]_vars

\* ---- the tools that write ---------------------------------------------------
\* The handlers of the tools that write the tables of layers and styles:
\* add_layer_to_map, new_layer_from_postgis, create_layer_style,
\* set_active_style and the tools of get_tools().  The callers are
\* sequential; the model asks for tools in the first round of a task.
PostgisTool == "new_layer_from_postgis"
CreateStyleTool == "create_layer_style"
ActiveStyleTool == "set_active_style"
NoStyle == ""
NoConnection == ""

\* an invocation with the identifiers of its arguments
LayerCall(name, layer_id, style_id, postgis_connection_id) ==
    [name |-> name, layer_id |-> layer_id, style_id |-> style_id,
     postgis_connection_id |-> postgis_connection_id]
LayerCallKinds ==
    { LayerCall(KnownTool, "L1", NoStyle, NoConnection),
      LayerCall(KnownTool, "L2", NoStyle, NoConnection),
      LayerCall(PostgisTool, NoLayer, NoStyle, "P1"),
      LayerCall(PostgisTool, NoLayer, NoStyle, "P2"),
      LayerCall(CreateStyleTool, "L1", NoStyle, NoConnection),
      LayerCall(CreateStyleTool, "L2", NoStyle, NoConnection),
      LayerCall(ActiveStyleTool, "L1", "S1", NoConnection),
      LayerCall(ActiveStyleTool, "L2", "S2", NoConnection),
      LayerCall(GeoTool, "L1", NoStyle, NoConnection) }

\* tool_call.id for these invocations, as in WithIds
WithCallIds(r, i, kinds) ==
    [k \in 1..Len(kinds) |->
        [id |-> <<r, i, k>>, name |-> kinds[k].name, layer_id |-> kinds[k].layer_id,
         style_id |-> kinds[k].style_id,
         postgis_connection_id |-> kinds[k].postgis_connection_id]]

\* the first task asks for up to MaxCalls invocations in its first round, a
\* later task for one
LayerResponses(r) ==
    IF round[r] <= ShortRounds
    THEN {Answer(k) : k \in SeqsUpTo(LayerCallKinds, IF r = 1 THEN MaxCalls ELSE 1)}
    ELSE {Answer(<<>>)}

\* generate_id(prefix="S"): the id of the style made for invocation id
FreshStyle(id) == "T" \o ToString(id[1]) \o ToString(id[2]) \o ToString(id[3])

\* lines 757-764: the assistant message is inserted; without tool_calls the
\* loop is left
layer_chat_completion(r) ==
    /\ pc[r] = "model"
    /\ \E resp \in LayerResponses(r) :
          LET calls == WithCallIds(r, round[r], resp.tool_calls)
          IN  /\ log' = [log EXCEPT ![target[r]] = Append(@, AssistantMessage(r, calls))]
              /\ IF calls = <<>>
                 THEN /\ Leave(r, "tool_free")
                      /\ UNCHANGED pending
                 ELSE /\ pc' = [pc EXCEPT ![r] = "dispatch"]
                      /\ pending' = [pending EXCEPT ![r] = calls]
                      /\ UNCHANGED endReason
    /\ UNCHANGED <<dbvars, errorNotices, clients, user_mundiai_maps, sendpc, target, round, lock,
                   cancelled, modelRequests, racedWith, cancelScope, staleCancel>>

\* mutant: the layer is appended to the layers of the map before its row is
\* inserted
dispatch_new_layer_from_postgis_attaches_first(r) ==
    /\ Dispatching(r, {PostgisTool})
    /\ LET call == Head(pending[r])
           m == target[r]
           layer_id == FreshLayer(call.id)
           style == [style_id |-> FreshStyle(call.id), layer_id |-> layer_id,
                     created_by |-> Owner]
           active == [map_id |-> m, layer_id |-> layer_id, style_id |-> FreshStyle(call.id)]
       IN  IF [id |-> call.postgis_connection_id, user_id |-> Owner]
                  \notin project_postgres_connections
           THEN /\ AppendResult(r, "error", <<>>)
                /\ UNCHANGED <<map_layers, layers, layer_styles, map_layer_styles>>
           ELSE \E reached \in {"query", "layer", "styles", "plain", "all"} :
                   /\ layers' = [layers EXCEPT ![m] =
                          IF reached = "query" THEN @ ELSE Append(@, layer_id)]
                   /\ map_layers' =
                          IF reached \in {"query", "layer"} THEN map_layers
                          ELSE map_layers \cup {OwnedRow(layer_id)}
                   /\ layer_styles' =
                          IF reached \in {"styles", "all"}
                          THEN layer_styles \cup {style} ELSE layer_styles
                   /\ map_layer_styles' =
                          IF reached \in {"styles", "all"}
                          THEN map_layer_styles \cup {active} ELSE map_layer_styles
                   /\ AppendResult(r, IF reached \in {"plain", "all"}
                                      THEN "success" ELSE "error", <<>>)
    /\ UNCHANGED <<ordervars, noticevars, connvars, queryvars, poolvars, authvars, project_postgres_connections,
                   has_openstreetmap_api_key, tools_payload, qgis, listed,
                   clients, user_mundiai_maps, sendpc, target, round, lock, cancelled,
                   modelRequests, endReason, racedWith, cancelScope, staleCancel, errorNotices>>

\* lines 776-1060: the branch of new_layer_from_postgis.  Without a row of
\* project_postgres_connections with this id and the caller as user_id the
\* result is an error.  Else the query is tried out; the row of map_layers is
\* inserted (line 982); with a geometry type a style and its row of
\* map_layer_styles are inserted; last the layer is appended to the layers of
\* the map (line 1028).  Any of these statements may raise: the except branch
\* at line 1053 makes the result an error and the statements before stay done.
dispatch_new_layer_from_postgis(r) ==
    /\ Dispatching(r, {PostgisTool})
    /\ LET call == Head(pending[r])
           m == target[r]
           layer_id == FreshLayer(call.id)
           style == [style_id |-> FreshStyle(call.id), layer_id |-> layer_id,
                     created_by |-> Owner]
           active == [map_id |-> m, layer_id |-> layer_id, style_id |-> FreshStyle(call.id)]
       IN  IF [id |-> call.postgis_connection_id, user_id |-> Owner]
                  \notin project_postgres_connections
           THEN /\ AppendResult(r, "error", <<>>)
                /\ UNCHANGED <<map_layers, layers, layer_styles, map_layer_styles>>
           ELSE \E reached \in {"query", "layer", "styles", "plain", "all"} :
                   \* how far the statements got: the query failed; the row of the
                   \* layer was inserted; the styles too; everything without a
                   \* geometry type; everything
                   /\ map_layers' =
                          IF reached = "query" THEN map_layers
                          ELSE map_layers \cup {OwnedRow(layer_id)}
                   /\ layer_styles' =
                          IF reached \in {"styles", "all"}
                          THEN layer_styles \cup {style} ELSE layer_styles
                   /\ map_layer_styles' =
                          IF reached \in {"styles", "all"}
                          THEN map_layer_styles \cup {active} ELSE map_layer_styles
                   /\ layers' = [layers EXCEPT ![m] =
                          IF reached \in {"plain", "all"} THEN Append(@, layer_id) ELSE @]
                   /\ AppendResult(r, IF reached \in {"plain", "all"}
                                      THEN "success" ELSE "error", <<>>)
    /\ UNCHANGED <<ordervars, noticevars, connvars, queryvars, poolvars, authvars, project_postgres_connections,
                   has_openstreetmap_api_key, tools_payload, qgis, listed,
                   clients, user_mundiai_maps, sendpc, target, round, lock, cancelled,
                   modelRequests, endReason, racedWith, cancelScope, staleCancel, errorNotices>>

\* lines 1194-1289: the branch of create_layer_style.  The style is parsed
\* and validated within the style of the map (errors of both become an error
\* result); a valid style is inserted into layer_styles for the layer_id of
\* the arguments, with the caller as created_by.  No statement looks up the
\* owner of the layer.
dispatch_create_layer_style(r) ==
    /\ Dispatching(r, {CreateStyleTool})
    /\ \E valid \in BOOLEAN :
          IF valid
          THEN /\ layer_styles' = layer_styles \cup
                      {[style_id |-> FreshStyle(Head(pending[r]).id),
                        layer_id |-> Head(pending[r]).layer_id, created_by |-> Owner]}
               /\ AppendResult(r, "success", <<>>)
          ELSE /\ AppendResult(r, "error", <<>>)
               /\ UNCHANGED layer_styles
    /\ UNCHANGED <<ordervars, noticevars, connvars, queryvars, poolvars, authvars, map_layer_styles, project_postgres_connections,
                   tablevars,
                   clients, user_mundiai_maps, sendpc, target, round, lock, cancelled,
                   modelRequests, endReason, racedWith, cancelScope, staleCancel, errorNotices>>

\* lines 1290-1331: the branch of set_active_style.  With both arguments
\* given, the row of map_layer_styles for this map and layer is inserted, or
\* its style_id replaced; the result is a success.  No statement looks up the
\* layer or the style.
dispatch_set_active_style(r) ==
    /\ Dispatching(r, {ActiveStyleTool})
    /\ LET call == Head(pending[r])
           m == target[r]
       IN  map_layer_styles' =
               {row \in map_layer_styles : ~(row.map_id = m /\ row.layer_id = call.layer_id)}
                 \cup {[map_id |-> m, layer_id |-> call.layer_id, style_id |-> call.style_id]}
    /\ AppendResult(r, "success", <<>>)
    /\ UNCHANGED <<ordervars, noticevars, connvars, queryvars, poolvars, authvars, layer_styles, project_postgres_connections,
                   tablevars,
                   clients, user_mundiai_maps, sendpc, target, round, lock, cancelled,
                   modelRequests, endReason, racedWith, cancelScope, staleCancel, errorNotices>>

LayerInit == ToolInit /\ ~has_openstreetmap_api_key

LayerNext ==
    \/ \E r \in Reqs : send_authenticate(r)
    \/ \E r \in Reqs : send_get_lock(r)
    \/ \E r \in Reqs : send_set_lock(r)
    \/ \E r \in Reqs : send_update_messages(r)
    \/ \E r \in Reqs : task_check_cancelled(r)
    \/ \E r \in Reqs : tool_fetch_messages(r)
    \/ \E r \in Reqs : layer_chat_completion(r)
    \/ \E r \in Reqs : dispatch_add_layer_to_map(r)
    \/ \E r \in Reqs : dispatch_new_layer_from_postgis(r)
    \/ \E r \in Reqs : dispatch_create_layer_style(r)
    \/ \E r \in Reqs : dispatch_set_active_style(r)
    \/ \E r \in Reqs : dispatch_geoprocessing(r)
    \/ \E r \in Reqs : task_unlock(r)

LayerSpec == LayerInit /\ [][LayerNext]_vars

\* ---- AsyncDatabaseConnection ------------------------------------------------
\* The objects of get_async_db_connection(), each used by one async with
\* statement; the statements of different coroutines overlap at will.
OthersUnchanged == UNCHANGED <<ctlvars, tablevars, ordervars, noticevars, stylevars, queryvars, poolvars, authvars>>

\* mutant: the connection is taken from a shared pool of one
aenter_shared(c) ==
    /\ ctx[c] = "new"
    /\ \/ /\ conn' = [conn EXCEPT ![c] =
                 IF opened \ closed # {} THEN CHOOSE k \in opened \ closed : TRUE
                 ELSE Cardinality(opened) + 1]
          /\ opened' = opened \cup {conn'[c]}
          /\ ctx' = [ctx EXCEPT ![c] = "entered"]
       \/ /\ ctx' = [ctx EXCEPT ![c] = "failed"]
          /\ UNCHANGED <<conn, opened>>
    /\ UNCHANGED <<exc, closed>>
    /\ OthersUnchanged

\* structures.py lines 91-102, __aenter__: asyncpg.connect returns a
\* connection that did not exist before, which is kept in self.conn and
\* handed to the body; or it raises, and the statement is left with self.conn
\* as it was
aenter(c) ==
    /\ ctx[c] = "new"
    /\ \/ /\ conn' = [conn EXCEPT ![c] = Cardinality(opened) + 1]
          /\ opened' = opened \cup {Cardinality(opened) + 1}
          /\ ctx' = [ctx EXCEPT ![c] = "entered"]
       \/ /\ ctx' = [ctx EXCEPT ![c] = "failed"]
          /\ UNCHANGED <<conn, opened>>
    /\ UNCHANGED <<exc, closed>>
    /\ OthersUnchanged

\* the body of the async with statement runs to its end or raises
body(c) ==
    /\ ctx[c] = "entered"
    /\ ctx' = [ctx EXCEPT ![c] = "leaving"]
    /\ \E how \in {"completed", "raised"} : exc' = [exc EXCEPT ![c] = how]
    /\ UNCHANGED <<conn, opened, closed>>
    /\ OthersUnchanged

\* structures.py lines 104-106, __aexit__: self.conn is closed when there is
\* one; the exception of the body, if any, is not looked at
aexit(c) ==
    /\ ctx[c] = "leaving"
    /\ ctx' = [ctx EXCEPT ![c] = "exited"]
    /\ closed' = IF conn[c] # None THEN closed \cup {conn[c]} ELSE closed
    /\ UNCHANGED <<conn, exc, opened>>
    /\ OthersUnchanged

ConnInit == Init /\ clients = "sequential"

ConnNext ==
    \/ \E c \in Contexts : aenter(c)
    \/ \E c \in Contexts : body(c)
    \/ \E c \in Contexts : aexit(c)

ConnSpec == ConnInit /\ [][ConnNext]_vars

\* ---- query_postgis_database -------------------------------------------------
\* The branch of query_postgis_database (lines 1389-1548) in the rounds of
\* sequential callers, beside add_layer_to_map.  A query is the sequence of
\* its words: a word has its letters, a number its digits; quoted says that
\* the word stands inside a string literal or a comment of the SQL text, which
\* a regular expression does not know.
QueryTool == "query_postgis_database"
NoQuery == <<>>                 \* tool_args.get("sql_query") is None
MaxLimit == 1000                \* line 1425: if limit_value > 1000
Word(w) == [word |-> w, digits |-> <<>>, quoted |-> FALSE]
Number(d) == [word |-> "", digits |-> d, quoted |-> FALSE]
Quoted(t) == [t EXCEPT !.quoted = TRUE]
Queries ==
    { <<Word("SELECT")>>,
      <<Word("SELECT"), Word("LIMIT"), Number(<<5>>)>>,
      <<Word("SELECT"), Word("limit"), Number(<<9, 9, 9>>)>>,
      <<Word("SELECT"), Word("LIMIT"), Number(<<1, 0, 0, 0>>)>>,
      <<Word("SELECT"), Word("LIMIT"), Number(<<1, 0, 0, 1>>)>>,
      <<Word("SELECT"), Word("LIMIT"), Word("ALL")>>,
      <<Word("SELECT"), Quoted(Word("LIMIT")), Quoted(Number(<<5>>))>> }

\* re.IGNORECASE on the letters of LIMIT
Upper(w) == IF w \in {"limit", "Limit", "LIMIT"} THEN "LIMIT" ELSE w

\* int(limit_match.group(1)): the value of a string of decimal digits
RECURSIVE ToInt(_)
ToInt(d) == IF d = <<>> THEN 0 ELSE 10 * ToInt(SubSeq(d, 1, Len(d) - 1)) + d[Len(d)]

\* lines 1419-1423: re.search(r"\bLIMIT\s+(\d+)\b", ...): the first place of
\* the text where the word LIMIT is followed by a number (None: no such place)
LimitMatches(q) ==
    {i \in 1..(Len(q) - 1) : Upper(q[i].word) = "LIMIT" /\ q[i + 1].digits # <<>>}
limit_match(q) ==
    IF LimitMatches(q) = {} THEN None
    ELSE CHOOSE i \in LimitMatches(q) : \A j \in LimitMatches(q) : i <= j
\* line 1424
limit_value(q) == ToInt(q[limit_match(q) + 1].digits)

\* an invocation with the arguments its branch reads
QueryCall(name, layer_id, postgis_connection_id, sql_query) ==
    [name |-> name, layer_id |-> layer_id,
     postgis_connection_id |-> postgis_connection_id, sql_query |-> sql_query]
QueryCallKinds ==
    { QueryCall(QueryTool, NoLayer, "P1", q) : q \in Queries }
        \cup { QueryCall(QueryTool, NoLayer, "P2", <<Word("SELECT"), Word("LIMIT"), Number(<<5>>)>>),
               QueryCall(QueryTool, NoLayer, NoConnection, <<Word("SELECT")>>),
               QueryCall(QueryTool, NoLayer, "P1", NoQuery),
               QueryCall(KnownTool, "L1", NoConnection, NoQuery) }

\* tool_call.id for these invocations, as in WithIds
WithQueryIds(r, i, kinds) ==
    [k \in 1..Len(kinds) |->
        [id |-> <<r, i, k>>, name |-> kinds[k].name, layer_id |-> kinds[k].layer_id,
         postgis_connection_id |-> kinds[k].postgis_connection_id,
         sql_query |-> kinds[k].sql_query]]

\* the first task asks for up to MaxCalls invocations in its first round, a
\* later task for one
QueryResponses(r) ==
    IF round[r] <= ShortRounds
    THEN {Answer(k) : k \in SeqsUpTo(QueryCallKinds, IF r = 1 THEN MaxCalls ELSE 1)}
    ELSE {Answer(<<>>)}

\* lines 757-764: the assistant message is inserted; without tool_calls the
\* loop is left
query_chat_completion(r) ==
    /\ pc[r] = "model"
    /\ \E resp \in QueryResponses(r) :
          LET calls == WithQueryIds(r, round[r], resp.tool_calls)
          IN  /\ log' = [log EXCEPT ![target[r]] = Append(@, AssistantMessage(r, calls))]
              /\ IF calls = <<>>
                 THEN /\ Leave(r, "tool_free")
                      /\ UNCHANGED pending
                 ELSE /\ pc' = [pc EXCEPT ![r] = "dispatch"]
                      /\ pending' = [pending EXCEPT ![r] = calls]
                      /\ UNCHANGED endReason
    /\ UNCHANGED <<dbvars, errorNotices, clients, user_mundiai_maps, sendpc, target, round, lock,
                   cancelled, modelRequests, racedWith, cancelScope, staleCancel>>

\* what the external database may do with a query: connect_to_postgres or
\* fetch raises, or fetch returns no rows, rows, or rows whose text is longer
\* than 25000 characters
QueryAnswers == {"connect_raised", "fetch_raised", "no_rows", "rows", "too_large"}
\* lines 1456-1540: the status of the tool_result built for an answer
QueryStatus(answer) == IF answer \in {"no_rows", "rows"} THEN "success" ELSE "error"

\* mutant: a rejected query is answered with its error and then handled as
\* an accepted one (the two continue statements are missing)
dispatch_query_postgis_database_falls_through(r) ==
    /\ Dispatching(r, {QueryTool})
    /\ LET call == Head(pending[r])
           q == call.sql_query
       IN  IF call.postgis_connection_id = NoConnection \/ q = NoQuery
           THEN /\ AppendResult(r, "error", <<>>)
                /\ UNCHANGED sent
           ELSE IF [id |-> call.postgis_connection_id, user_id |-> Owner]
                      \notin project_postgres_connections
           THEN /\ AppendResult(r, "error", <<>>)
                /\ UNCHANGED sent
           ELSE \E answer \in QueryAnswers :
                   /\ sent' = IF answer = "connect_raised" THEN sent
                              ELSE Append(sent, [id |-> call.id, sql_query |-> q])
                   /\ log' = [log EXCEPT ![target[r]] =
                                 IF limit_match(q) = None \/ limit_value(q) > MaxLimit
                                 THEN @ \o <<ToolMessage(r, call.id, "error"),
                                             ToolMessage(r, call.id, QueryStatus(answer))>>
                                 ELSE Append(@, ToolMessage(r, call.id, QueryStatus(answer)))]
                   /\ pending' = [pending EXCEPT ![r] = Tail(@)]
                   /\ pc' = [pc EXCEPT ![r] = IF Len(pending[r]) > 1 THEN "dispatch" ELSE "top"]
    /\ UNCHANGED <<tablevars, ordervars, noticevars, stylevars, connvars, poolvars, authvars,
                   clients, user_mundiai_maps, sendpc, target, round, lock, cancelled,
                   modelRequests, endReason, racedWith, cancelScope, staleCancel, errorNotices>>

\* lines 1389-1548: the branch of query_postgis_database.  Missing arguments
\* and a connection that is not a row of the caller give an error result.
\* A text without a match of the regular expression, or with a matched value
\* above 1000, gets its error result inside the branch, which then continues
\* with the next tool_call (an insert that raises there is caught at line
\* 1535 and made again at line 1542, with an error result as well).  Any
\* other text is handed to the external database unchanged; what it answers,
\* or raises, becomes the result.
dispatch_query_postgis_database(r) ==
    /\ Dispatching(r, {QueryTool})
    /\ LET call == Head(pending[r])
           q == call.sql_query
       IN  IF call.postgis_connection_id = NoConnection \/ q = NoQuery
           THEN /\ AppendResult(r, "error", <<>>)
                /\ UNCHANGED sent
           ELSE IF [id |-> call.postgis_connection_id, user_id |-> Owner]
                      \notin project_postgres_connections
           THEN /\ AppendResult(r, "error", <<>>)
                /\ UNCHANGED sent
           ELSE IF limit_match(q) = None
           THEN /\ AppendResult(r, "error", <<>>)
                /\ UNCHANGED sent
           ELSE IF limit_value(q) > MaxLimit
           THEN /\ AppendResult(r, "error", <<>>)
                /\ UNCHANGED sent
           ELSE \E answer \in QueryAnswers :
                   /\ sent' = IF answer = "connect_raised" THEN sent
                              ELSE Append(sent, [id |-> call.id, sql_query |-> q])
                   /\ AppendResult(r, QueryStatus(answer), <<>>)
    /\ UNCHANGED <<tablevars, ordervars, noticevars, stylevars, connvars, poolvars, authvars,
                   clients, user_mundiai_maps, sendpc, target, round, lock, cancelled,
                   modelRequests, endReason, racedWith, cancelScope, staleCancel, errorNotices>>

QueryInit == ToolInit /\ ~has_openstreetmap_api_key /\ layers = [m \in Maps |-> <<>>]

QueryNext ==
    \/ \E r \in Reqs : send_authenticate(r)
    \/ \E r \in Reqs : send_get_lock(r)
    \/ \E r \in Reqs : send_set_lock(r)
    \/ \E r \in Reqs : send_update_messages(r)
    \/ \E r \in Reqs : task_check_cancelled(r)
    \/ \E r \in Reqs : tool_fetch_messages(r)
    \/ \E r \in Reqs : query_chat_completion(r)
    \/ \E r \in Reqs : dispatch_add_layer_to_map(r)
    \/ \E r \in Reqs : dispatch_query_postgis_database(r)
    \/ \E r \in Reqs : task_unlock(r)

QuerySpec == QueryInit /\ [][QueryNext]_vars

\* ---- two maps ---------------------------------------------------------------
\* Concurrent callers with both maps live: a request names either map, and
\* the owner may cancel on either.  The keys do not expire here.
MapsInit ==
    /\ clients = "concurrent"
    /\ user_mundiai_maps = Maps
    /\ sendpc = [r \in Reqs |-> "idle"]
    /\ target = [r \in Reqs |-> NoMap]
    /\ pc = [r \in Reqs |-> "none"]
    /\ round = [r \in Reqs |-> 0]
    /\ pending = [r \in Reqs |-> <<>>]
    /\ lock = [m \in Maps |-> NoLock]
    /\ cancelled = [m \in Maps |-> FALSE]
    /\ log = [m \in Maps |-> <<>>]
    /\ modelRequests = [r \in Reqs |-> 0]
    /\ endReason = [r \in Reqs |-> ""]
    /\ racedWith = [r \in Reqs |-> {}]
    /\ cancelScope = [m \in Maps |-> {}]
    /\ staleCancel = [r \in Reqs |-> FALSE]
    /\ errorNotices = [r \in Reqs |-> 0]
    /\ map_layers = { [layer_id |-> "L1", owner_uuid |-> Owner],
                      [layer_id |-> "L2", owner_uuid |-> "stranger"] }
    /\ layers = [m \in Maps |-> <<>>]
    /\ has_openstreetmap_api_key = FALSE
    /\ tools_payload = [r \in Reqs |-> {}]
    /\ qgis = [r \in Reqs |-> NotCalled]
    /\ listed = NoResponse
    /\ AuxInit

MapsNext ==
    \/ \E r \in Reqs : send_authenticate(r)
    \/ \E r \in Reqs : send_get_lock(r)
    \/ \E r \in Reqs : send_set_lock(r)
    \/ \E r \in Reqs : send_update_messages(r)
    \/ \E m \in Maps, u \in Users : cancel_map_message(m, u)
    \/ \E r \in Reqs : task_check_cancelled(r)
    \/ \E r \in Reqs : task_delete_cancelled(r)
    \/ \E r \in Reqs : task_fetch_messages(r)
    \/ \E r \in Reqs : task_chat_completion(r)
    \/ \E r \in Reqs : task_tool_call(r)
    \/ \E r \in Reqs : task_unlock(r)

MapsSpec == MapsInit /\ [][MapsNext]_vars

\* ---- authentication ---------------------------------------------------------
\* send_map_message and cancel_map_message with the response of their first
\* statements on record: the map named, the caller, and 404, 401 or the way
\* on.  The callers are sequential; a cancel may come at any time.
Refusal(m, u) ==
    IF m \notin user_mundiai_maps THEN "http404"
    ELSE IF u # Owner THEN "http401"
    ELSE "passed"

\* lines 1664-1681: as send_authenticate
auth_send_map_message(r) ==
    /\ Arrives(r)
    /\ \E m \in Maps, u \in Users :
          /\ answered' = [route |-> "send", map_id |-> m, user |-> u, status |-> Refusal(m, u)]
          /\ IF Refusal(m, u) = "passed"
             THEN /\ sendpc' = [sendpc EXCEPT ![r] = "check"]
                  /\ target' = [target EXCEPT ![r] = m]
             ELSE /\ sendpc' = [sendpc EXCEPT ![r] = Refusal(m, u)]
                  /\ UNCHANGED target
    /\ UNCHANGED <<tablevars, ordervars, noticevars, stylevars, connvars, queryvars, poolvars,
                   clients, user_mundiai_maps, pc, round, pending, lock, cancelled, log,
                   modelRequests, endReason, racedWith, cancelScope, staleCancel, errorNotices>>

\* mutant: the flag is set before the caller is authenticated
auth_cancel_map_message_sets_first(m, u) ==
    /\ answered' = [route |-> "cancel", map_id |-> m, user |-> u, status |-> Refusal(m, u)]
    /\ cancelled' = [cancelled EXCEPT ![m] = TRUE]
    /\ cancelScope' = [cancelScope EXCEPT ![m] =
           @ \cup {r \in Reqs : /\ target[r] = m
                                /\ sendpc[r] \notin {"idle", "http409", "http500"}
                                /\ ~TaskOver(r)}]
    /\ UNCHANGED <<tablevars, ordervars, noticevars, stylevars, connvars, queryvars, poolvars,
                   clients, user_mundiai_maps, sendpc, target, pc, round, pending, lock, log,
                   modelRequests, endReason, racedWith, staleCancel, errorNotices>>

\* lines 1781-1802: as cancel_map_message; the flag is set after both tests
auth_cancel_map_message(m, u) ==
    /\ answered' = [route |-> "cancel", map_id |-> m, user |-> u, status |-> Refusal(m, u)]
    /\ IF Refusal(m, u) = "passed"
       THEN /\ cancelled' = [cancelled EXCEPT ![m] = TRUE]
            /\ cancelScope' = [cancelScope EXCEPT ![m] =
                   @ \cup {r \in Reqs : /\ target[r] = m
                                        /\ sendpc[r] \notin {"idle", "http409", "http500"}
                                        /\ ~TaskOver(r)}]
       ELSE UNCHANGED <<cancelled, cancelScope>>
    /\ UNCHANGED <<tablevars, ordervars, noticevars, stylevars, connvars, queryvars, poolvars,
                   clients, user_mundiai_maps, sendpc, target, pc, round, pending, lock, log,
                   modelRequests, endReason, racedWith, staleCancel, errorNotices>>

AuthInit == Init /\ clients = "sequential"

AuthNext ==
    \/ \E r \in Reqs : auth_send_map_message(r)
    \/ \E r \in Reqs : send_get_lock(r)
    \/ \E r \in Reqs : send_set_lock(r)
    \/ \E r \in Reqs : send_update_messages(r)
    \/ \E m \in Maps, u \in Users : auth_cancel_map_message(m, u)
    \/ \E r \in Reqs : task_check_cancelled(r)
    \/ \E r \in Reqs : task_delete_cancelled(r)
    \/ \E r \in Reqs : task_fetch_messages(r)
    \/ \E r \in Reqs : task_chat_completion(r)
    \/ \E r \in Reqs : task_tool_call(r)
    \/ \E r \in Reqs : task_unlock(r)

AuthSpec == AuthInit /\ [][AuthNext]_vars

\* ---- the connection pools ---------------------------------------------------
\* _get_connection_pool and _get_async_connection_pool of src/structures.py,
\* called for the first time by several threads and coroutines at once.  A
\* coroutine runs from one await to the next without interruption; a thread
\* may be interrupted between any two statements.
PoolOthersUnchanged ==
    UNCHANGED <<ctlvars, tablevars, ordervars, noticevars, stylevars, connvars, queryvars, authvars>>
\* the pool that the call of caller c makes
AsyncPool(c) == c
ThreadedPool(c) == MaxCallers + c
AsyncPools == {AsyncPool(c) : c \in Callers}
ThreadedPools == {ThreadedPool(c) : c \in Callers}

\* lines 47 and 59: with the global set, it is returned; else the arguments
\* are read and asyncpg.create_pool is awaited
async_pool_test(c) ==
    /\ poolpc[c] = "start"
    /\ IF async_connection_pool = None
       THEN /\ poolpc' = [poolpc EXCEPT ![c] = "awaiting"]
            /\ UNCHANGED got
       ELSE /\ poolpc' = [poolpc EXCEPT ![c] = "returned"]
            /\ got' = [got EXCEPT ![c] = async_connection_pool]
    /\ UNCHANGED <<async_connection_pool, connection_pool, created>>
    /\ PoolOthersUnchanged

\* lines 55-60: create_pool has answered: its pool is stored in the global
\* and the global is returned, or its exception leaves the function
async_pool_created(c) ==
    /\ poolpc[c] = "awaiting"
    /\ \/ /\ created' = created \cup {AsyncPool(c)}
          /\ async_connection_pool' = AsyncPool(c)
          /\ got' = [got EXCEPT ![c] = AsyncPool(c)]
          /\ poolpc' = [poolpc EXCEPT ![c] = "returned"]
       \/ /\ poolpc' = [poolpc EXCEPT ![c] = "raised"]
          /\ UNCHANGED <<created, async_connection_pool, got>>
    /\ UNCHANGED connection_pool
    /\ PoolOthersUnchanged

\* line 28: if _connection_pool is None
threaded_pool_test(c) ==
    /\ poolpc[c] = "start"
    /\ poolpc' = [poolpc EXCEPT ![c] =
                     IF connection_pool = None THEN "constructing" ELSE "returning"]
    /\ UNCHANGED <<async_connection_pool, connection_pool, got, created>>
    /\ PoolOthersUnchanged

\* lines 30-40: pool.ThreadedConnectionPool(...) opens its connections, or
\* raises
threaded_pool_construct(c) ==
    /\ poolpc[c] = "constructing"
    /\ \/ /\ created' = created \cup {ThreadedPool(c)}
          /\ poolpc' = [poolpc EXCEPT ![c] = "assigning"]
       \/ /\ poolpc' = [poolpc EXCEPT ![c] = "raised"]
          /\ UNCHANGED created
    /\ UNCHANGED <<async_connection_pool, connection_pool, got>>
    /\ PoolOthersUnchanged

\* line 36: the assignment to the global
threaded_pool_assign(c) ==
    /\ poolpc[c] = "assigning"
    /\ connection_pool' = ThreadedPool(c)
    /\ poolpc' = [poolpc EXCEPT ![c] = "returning"]
    /\ UNCHANGED <<async_connection_pool, got, created>>
    /\ PoolOthersUnchanged

\* line 41: return _connection_pool, the global as it is now
threaded_pool_return(c) ==
    /\ poolpc[c] = "returning"
    /\ got' = [got EXCEPT ![c] = connection_pool]
    /\ poolpc' = [poolpc EXCEPT ![c] = "returned"]
    /\ UNCHANGED <<async_connection_pool, connection_pool, created>>
    /\ PoolOthersUnchanged

PoolInit == Init /\ clients = "sequential"

PoolNext ==
    \/ \E c \in Callers : async_pool_test(c)
    \/ \E c \in Callers : async_pool_created(c)
    \/ \E c \in Callers : threaded_pool_test(c)
    \/ \E c \in Callers : threaded_pool_construct(c)
    \/ \E c \in Callers : threaded_pool_assign(c)
    \/ \E c \in Callers : threaded_pool_return(c)

PoolSpec == PoolInit /\ [][PoolNext]_vars

\* ---- properties ---------------------------------------------------------
TypeOK ==
    /\ clients \in {"concurrent", "sequential"}
    /\ \A r \in Reqs : round[r] \in 0..RoundCeiling /\ modelRequests[r] \in 0..RoundCeiling
    /\ \A m \in Maps : lock[m] \in {NoLock} \cup Reqs

\* the task of r is inside its for loop
InLoop(r) == pc[r] \in {"top", "cancel", "fetch", "model", "dispatch"}
\* the send handler of r answered 200 processing_started or 409
Answered409or200(r) == sendpc[r] \in {"http200", "http409"}

\* C1: of two send_map_message requests for one map that both read the lock
\* key while it was absent and before either had set it, exactly one is
\* answered processing_started and the other 409 conflict.
C1_ExactlyOneAccepted ==
    \A r1, r2 \in Reqs :
        (r1 # r2 /\ r1 \in racedWith[r2] /\ Answered409or200(r1) /\ Answered409or200(r2)) =>
            \/ (sendpc[r1] = "http200" /\ sendpc[r2] = "http409")
            \/ (sendpc[r1] = "http409" /\ sendpc[r2] = "http200")

\* C2: no two tasks are inside their loops on the same map at the same time.
C2_OneLoopPerMap ==
    \A r1, r2 \in Reqs :
        (r1 # r2 /\ InLoop(r1) /\ InLoop(r2)) => target[r1] # target[r2]

\* C3: a task that left its loop by a tool-free answer, a cancellation, the
\* exhausted round budget or a failed model call goes on to delete the lock
\* key, which is absent right after; and a send that reads the key absent is
\* not rejected with 409.
NormalEnds == {"tool_free", "cancelled", "budget", "model_raised"}
C3_LockAbsentAfterLoop ==
    [][ /\ \A r \in Reqs :
              /\ (endReason[r] \in NormalEnds => pc[r] \in {"unlock", "done"})
              /\ (pc[r] = "unlock" /\ pc'[r] # "unlock") =>
                     (pc'[r] = "done" /\ lock'[target[r]] = NoLock)
        /\ \A q \in Reqs :
              (sendpc[q] = "check" /\ sendpc'[q] # "check" /\ lock[target[q]] = NoLock) =>
                     sendpc'[q] = "got"
      ]_vars
\* a task ended by the round budget, and the next send on its map was accepted
C3_Witness ==
    \E r, q \in Reqs :
        /\ r < q /\ target[r] = target[q]
        /\ pc[r] = "done" /\ endReason[r] = "budget"
        /\ sendpc[q] = "http200"

\* C4: when an invocation names a tool outside the registry, the rest of the
\* round is not dispatched and the task ends with the lock key deleted.
C4_UnknownToolReleasesLock ==
    \A r \in Reqs :
        (TaskOver(r) /\ endReason[r] = "unknown_tool") => lock[target[r]] # r

\* C5: when a step of the task raises (fetching the transcript, inserting a
\* message, parsing the arguments, running a handler), the lock of the map is
\* released when the task ends.
RaiseEnds == {"fetch_raised", "append_raised", "bad_json", "handler_raised"}
C5_RaiseReleasesLock ==
    \A r \in Reqs :
        (TaskOver(r) /\ endReason[r] \in RaiseEnds) => lock[target[r]] # r

\* C6: the transcript of every model request holds, for each invocation of
\* each assistant message, exactly one tool message with that invocation's id
\* (stated for a request issued while no other task is in its loop on the map).
ResultsFor(transcript, id) ==
    {j \in 1..Len(transcript) :
        transcript[j].role = "tool" /\ transcript[j].tool_call_id = id}
EveryInvocationAnswered(transcript) ==
    \A i \in 1..Len(transcript) :
        \A k \in 1..Len(transcript[i].tool_calls) :
            Cardinality(ResultsFor(transcript, transcript[i].tool_calls[k].id)) = 1
C6_TranscriptAnswered ==
    [][ \A r \in Reqs :
          ( /\ pc[r] = "fetch" /\ pc'[r] = "model"
            /\ \A q \in Reqs \ {r} : ~(InLoop(q) /\ target[q] = target[r]) ) =>
              EveryInvocationAnswered(get_all_map_messages(target[r])) ]_vars

\* C7: no task issues more than 25 model requests; a task that leaves its
\* loop with neither a tool-free answer, a cancellation nor a failure has
\* issued exactly 25, and goes on to delete the lock.
C7_BudgetIsExactly25 ==
    \A r \in Reqs :
        /\ modelRequests[r] <= 25
        /\ (pc[r] \in {"unlock", "done"} /\ endReason[r] \notin {"tool_free", "cancelled", "model_raised"})
              => (modelRequests[r] = 25 /\ round[r] = 25)
        /\ (pc[r] = "done" /\ endReason[r] = "budget") => lock[target[r]] # r
\* a task ran out of rounds after 25 model requests and deleted the lock
C7_Witness ==
    \E r \in Reqs :
        /\ pc[r] = "done" /\ endReason[r] = "budget"
        /\ modelRequests[r] = 25
        /\ lock[target[r]] = NoLock

\* C8: a task that finds the cancel flag set at the start of a round leaves
\* the loop there: no model request and no tool of that round, the flag is
\* deleted and then the lock.
C8_CancelStopsAtRoundStart ==
    [][ \A r \in Reqs :
          /\ (pc[r] = "top" /\ pc'[r] # "top" /\ round[r] < 25 /\ cancelled[target[r]]) =>
                 (pc'[r] = "cancel" /\ round'[r] = round[r])
          /\ (pc[r] = "cancel" /\ pc'[r] # "cancel") =>
                 /\ pc'[r] = "unlock" /\ endReason'[r] = "cancelled"
                 /\ ~cancelled'[target[r]]
                 /\ modelRequests'[r] = round[r] /\ log' = log
          /\ (pc[r] = "unlock" /\ endReason[r] = "cancelled" /\ pc'[r] # "unlock") =>
                 /\ pc'[r] = "done" /\ lock'[target[r]] = NoLock
                 /\ modelRequests'[r] = round[r] /\ log' = log
      ]_vars
\* a task was cancelled by a flag set after its first round had begun
C8_Witness ==
    \E r \in Reqs :
        /\ pc[r] = "done" /\ endReason[r] = "cancelled" /\ ~staleCancel[r]
        /\ round[r] >= 1 /\ modelRequests[r] = round[r]
        /\ ~cancelled[target[r]] /\ lock[target[r]] = NoLock

\* C9: a cancel request made while no request or task is in progress on the
\* map does not terminate a task started afterwards.
C9_IdleCancelHasNoEffect ==
    \A r \in Reqs : ~staleCancel[r]

\* C10: a send answered 409 leaves the log, the lock, the cancel flag and
\* the tasks as they were.
C10_ConflictChangesNothing ==
    [][ \A r \in Reqs :
          (sendpc[r] = "check" /\ sendpc'[r] = "http409") =>
              /\ log' = log /\ lock' = lock /\ cancelled' = cancelled
              /\ pc' = pc /\ round' = round /\ pending' = pending
      ]_vars
\* a send was answered 409 while the lock was held
C10_Witness ==
    \E r \in Reqs : sendpc[r] = "http409" /\ lock[target[r]] # NoLock

\* C11: a tool result with status error does not end the loop: the step
\* that appends it goes on to the next invocation of the round or, after the
\* last one, to the start of the next round, where the model request is
\* issued as in any round that is neither cancelled nor beyond the budget.
AppendsBy(r) ==
    /\ Len(log'[target[r]]) = Len(log[target[r]]) + 1
    /\ log'[target[r]][Len(log'[target[r]])].by = r
LastAppended(r) == log'[target[r]][Len(log'[target[r]])]
C11_ErrorResultKeepsLoop ==
    [][ \A r \in Reqs :
          /\ (pc[r] = "dispatch" /\ AppendsBy(r) /\ LastAppended(r).status = "error") =>
                 /\ LastAppended(r).role = "tool"
                 /\ pending'[r] = Tail(pending[r])
                 /\ endReason'[r] = endReason[r]
                 /\ pc'[r] = IF Len(pending[r]) > 1 THEN "dispatch" ELSE "top"
          /\ (pc[r] = "top" /\ pc'[r] # "top" /\ round[r] < 25 /\ ~cancelled[target[r]]) =>
                 (pc'[r] = "fetch" /\ round'[r] = round[r] + 1)
          /\ (pc[r] = "fetch" /\ pc'[r] # "fetch" /\ endReason'[r] = endReason[r]) =>
                 (pc'[r] = "model" /\ modelRequests'[r] = modelRequests[r] + 1)
      ]_vars
\* the first invocation of a round got an error result, the second one was
\* dispatched after it and the model request of the next round was issued
C11_Witness ==
    \E r \in Reqs :
        /\ modelRequests[r] >= 2
        /\ \E i, j \in 1..Len(log[target[r]]) :
              /\ i < j
              /\ log[target[r]][i].tool_call_id = <<r, 1, 1>>
              /\ log[target[r]][i].status = "error"
              /\ log[target[r]][j].tool_call_id = <<r, 1, 2>>

\* C12: no task is ended by an exception raised while a tool handler runs;
\* such an exception becomes a tool result with status error.
C12_HandlerExceptionsBecomeResults ==
    \A r \in Reqs : pc[r] = "raised" => endReason[r] # "handler_raised"

\* C19: when the model request raises, the task publishes one error notice,
\* appends nothing, leaves the loop and issues no further model request.
MessagesBy(r, m) == {i \in 1..Len(log[m]) : log[m][i].by = r}
C19_ModelFailureEndsLoop ==
    [][ \A r \in Reqs :
          /\ (pc[r] = "model" /\ pc'[r] # "model" /\ log' = log /\ pc'[r] # "raised") =>
                 /\ pc'[r] = "unlock" /\ endReason'[r] = "model_raised"
                 /\ errorNotices'[r] = errorNotices[r] + 1
                 /\ modelRequests'[r] = modelRequests[r]
          /\ endReason[r] = "model_raised" =>
                 /\ errorNotices[r] = 1 /\ errorNotices'[r] = 1
                 /\ modelRequests'[r] = modelRequests[r]
                 /\ pc'[r] \in {"unlock", "done"}
                 /\ \A m \in Maps : Len(log'[m]) > Len(log[m]) =>
                        log'[m][Len(log'[m])].by # r
          /\ endReason[r] # "model_raised" /\ endReason'[r] # "model_raised" =>
                 errorNotices'[r] = 0
      ]_vars
\* the model request of a task's first round raised and the task ended with
\* one notice and nothing but the messages of its send in the log
C19_Witness ==
    \E r \in Reqs :
        /\ pc[r] = "done" /\ endReason[r] = "model_raised"
        /\ errorNotices[r] = 1 /\ modelRequests[r] = 1
        /\ \A i \in MessagesBy(r, target[r]) : log[target[r]][i].role \in {"user", "system"}

\* C13: an add_layer_to_map invocation naming a layer that an earlier
\* invocation on the same map attached is not an error and leaves the layers
\* list as it was; after every invocation that is not an error the layer is in
\* the list exactly once.
AllCalls(m) == UNION {RangeOf(log[m][i].tool_calls) : i \in 1..Len(log[m])}
AddedBefore(m, id) ==
    \E c \in AllCalls(m), j \in 1..Len(log[m]) :
        /\ c.name = KnownTool /\ c.layer_id = id
        /\ log[m][j].tool_call_id = c.id /\ log[m][j].status = AddedToMap
C13_AddLayerIsIdempotent ==
    [][ \A r \in Reqs :
          (Dispatching(r, {KnownTool}) /\ AppendsBy(r)) =>
              LET id == Head(pending[r]).layer_id
                  m == target[r]
              IN  /\ LastAppended(r).status # "error" => Count(layers'[m], id) = 1
                  /\ AddedBefore(m, id) =>
                        /\ LastAppended(r).status # "error"
                        /\ layers' = layers
      ]_vars
\* layer L1 was attached by four invocations: two of one round, one of the
\* next round and one of another task; it is in the list once
C13_Witness ==
    \E m \in Maps :
        /\ Count(layers[m], "L1") = 1
        /\ \A id \in {<<1, 1, 1>>, <<1, 1, 2>>, <<1, 2, 1>>, <<2, 1, 1>>} :
              /\ \E c \in AllCalls(m) : c.id = id /\ c.name = KnownTool /\ c.layer_id = "L1"
              /\ \E j \in 1..Len(log[m]) :
                    log[m][j].tool_call_id = id /\ log[m][j].status = AddedToMap

\* the layers made by a step of run_geoprocessing_tool
NewLayers == {row.layer_id : row \in map_layers' \ map_layers}
AllUploaded(answer) ==
    /\ answer.status_code = 200
    /\ \A param_name \in DeclaredOutputs : Uploaded(answer.upload_results, param_name)
OneLayerPerOutput(r) ==
    /\ Cardinality(NewLayers) = Cardinality(DeclaredOutputs)
    /\ map_layers' = map_layers \cup {OwnedRow(id) : id \in NewLayers}
    /\ Len(layers'[target[r]]) = Len(layers[target[r]]) + Cardinality(NewLayers)
    /\ \A id \in NewLayers : Count(layers'[target[r]], id) = 1
    /\ LastAppended(r).status = "success"
    /\ Len(LastAppended(r).created_layers) = Cardinality(NewLayers)
    /\ RangeOf(LastAppended(r).created_layers) = NewLayers

C15_FailedRemoteCreatesNothing ==
    [][ \A r \in Reqs :
          (Dispatching(r, geoprocessing_function_names) /\ AppendsBy(r)
              /\ qgis'[r] # NotCalled /\ ~AllUploaded(qgis'[r])) =>
                 /\ LastAppended(r).status = "error"
                 /\ LastAppended(r).created_layers = <<>>
                 /\ map_layers' = map_layers
                 /\ layers' = layers ]_vars
\* the service answered 200 with the output not uploaded; the result is an
\* error and the tables are those of the initial state
C15_Witness ==
    \E r \in Reqs :
        /\ qgis[r].status_code = 200
        /\ qgis[r].upload_results = {[param_name |-> "OUTPUT", uploaded |-> FALSE]}
        /\ pc[r] = "top" /\ round[r] = 1
        /\ log[1][Len(log[1])].role = "tool" /\ log[1][Len(log[1])].status = "error"
        /\ Cardinality(map_layers) = 2 /\ Len(layers[1]) <= 1

\* C16: a catalog built while the caller has no unattached layer lists
\* add_layer_to_map without an enum on layer_id.
C16_NoEnumWithoutLayers ==
    [][ \A r \in Reqs :
          (pc[r] = "fetch" /\ pc'[r] = "model" /\ unattached_layers = {}) =>
              \A tool \in tools_payload'[r] :
                  tool.name = KnownTool => (~tool.has_enum /\ tool.enum = {}) ]_vars
\* a model request was sent while the caller's only layer was on the map
C16_Witness ==
    \E r \in Reqs :
        /\ pc[r] = "model" /\ unattached_layers = {}
        /\ \E tool \in tools_payload[r] : tool.name = KnownTool /\ ~tool.has_enum

C18_OnlyOfferedToolsRun ==
    [][ \A r \in Reqs :
          (pc[r] = "dispatch" /\ AppendsBy(r) /\ LastAppended(r).role = "tool") =>
              \E tool \in tools_payload[r] : tool.name = Head(pending[r]).name ]_vars

\* C20: a response of get_map_messages holds exactly the rows of
\* get_all_map_messages with role user or assistant and without tool_calls,
\* in their order; the request changes nothing else.
Kept(all_messages) ==
    {i \in 1..Len(all_messages) :
        /\ all_messages[i].role \in {"user", "assistant"}
        /\ all_messages[i].tool_calls = <<>>}
NthKept(all_messages, j) ==
    CHOOSE i \in Kept(all_messages) :
        Cardinality({k \in Kept(all_messages) : k <= i}) = j
C20_VisibleMessages ==
    [][ (listed' # listed /\ listed'.status = "http200") =>
          LET all_messages == get_all_map_messages(listed'.map_id)
              shown == listed'.messages
          IN  /\ Len(shown) = Cardinality(Kept(all_messages))
              /\ \A j \in 1..Len(shown) :
                    /\ shown[j] = all_messages[NthKept(all_messages, j)]
                    /\ shown[j].role \notin {"system", "tool"}
              /\ log' = log /\ lock' = lock /\ cancelled' = cancelled
              /\ pc' = pc /\ layers' = layers /\ map_layers' = map_layers
      ]_vars
\* a log of an assistant message with an invocation, its tool message and a
\* user message was read: only the user message is shown
C20_Witness ==
    /\ listed.status = "http200" /\ Len(listed.messages) = 1
    /\ Len(log[1]) = 3
    /\ log[1][1].role = "assistant" /\ log[1][1].tool_calls # <<>>
    /\ log[1][2].role = "tool"
    /\ log[1][3].role = "user" /\ listed.messages[1] = log[1][3]

\* C21: a response of get_all_map_messages lists the rows of the map in the
\* order of their insertion, also when rows have equal created_at.
C21_AppendOrder ==
    [][ (fetched' # fetched /\ fetched'.status = "http200") =>
           fetched'.messages = chat_completion_messages[fetched'.map_id] ]_vars

\* C22: every tool message appended by a dispatch step, for every tool and
\* on its success and failure paths, has the status "success" or "error" and
\* the id of the invocation it answers.
C22_ResultsAreTagged ==
    [][ \A r \in Reqs :
          (pc[r] = "dispatch" /\ AppendsBy(r) /\ LastAppended(r).role = "tool") =>
              /\ LastAppended(r).status \in {"success", "error"}
              /\ LastAppended(r).tool_call_id = Head(pending[r]).id ]_vars

\* C23: every started event is followed by exactly one finished event with
\* its action id, however the wrapped work is left (normal completion, early
\* return of an error result, break on model failure, exception): the only
\* started event without its finished event is the last one of a task that is
\* inside the wrapped work, and no finished event comes before its started
\* event or twice.
FinishedOf(id) ==
    {j \in 1..Len(events) : events[j].status = "finished" /\ events[j].action_id = id}
InsideAction(r) == pc[r] \in {"model", "tool"}
EventsOf(r) ==
    {i \in 1..Len(events) :
        /\ events[i].map_id = target[r] /\ events[i].action_id[1] = r
        /\ events[i].ephemeral
        /\ DOMAIN events[i] =
              {"map_id", "ephemeral", "action_id", "action", "status", "timestamp"}}
C24_EventBeforeFirstRequest ==
    \A r \in Reqs :
        /\ modelRequests[r] >= 1 => EventsOf(r) # {}
        /\ (TaskOver(r) /\ round[r] >= 1) => EventsOf(r) # {}

\* C25: a tool that writes map or layer state (add_layer_to_map,
\* new_layer_from_postgis, create_layer_style, set_active_style) writes only
\* when every layer, style or connection its arguments name belongs to the
\* caller; otherwise its result is an error and no table changes.
WritingTools == {KnownTool, PostgisTool, CreateStyleTool, ActiveStyleTool}
BelongsToCaller(call) ==
    /\ call.layer_id # NoLayer => OwnedRow(call.layer_id) \in map_layers
    /\ call.style_id # NoStyle =>
          \E row \in layer_styles : row.style_id = call.style_id /\ row.created_by = Owner
    /\ call.postgis_connection_id # NoConnection =>
          [id |-> call.postgis_connection_id, user_id |-> Owner]
              \in project_postgres_connections
C25_WritesOnlyOwned ==
    [][ \A r \in Reqs :
          (Dispatching(r, WritingTools) /\ AppendsBy(r)
              /\ ~BelongsToCaller(Head(pending[r]))) =>
                 /\ LastAppended(r).status = "error"
                 /\ map_layers' = map_layers /\ layers' = layers
                 /\ layer_styles' = layer_styles
                 /\ map_layer_styles' = map_layer_styles ]_vars

\* C26: every layer id in the layers of a map has its row in map_layers,
\* whichever statements of new_layer_from_postgis, add_layer_to_map and the
\* geoprocessing tools were reached.
C26_AttachedLayersHaveRows ==
    \A m \in Maps : \A id \in RangeOf(layers[m]) :
        \E row \in map_layers : row.layer_id = id
\* new_layer_from_postgis failed after inserting the row of its layer, which
\* is on no map, and another invocation of it attached its layer
C26_Witness ==
    \E c1, c2 \in AllCalls(1) :
        /\ c1.name = PostgisTool /\ c2.name = PostgisTool
        /\ OwnedRow(FreshLayer(c1.id)) \in map_layers
        /\ FreshLayer(c1.id) \notin RangeOf(layers[1])
        /\ \E j \in 1..Len(log[1]) :
              log[1][j].tool_call_id = c1.id /\ log[1][j].status = "error"
        /\ OwnedRow(FreshLayer(c2.id)) \in map_layers
        /\ FreshLayer(c2.id) \in RangeOf(layers[1])

\* C27: under send_map_message, cancel_map_message, get_map_messages and the
\* steps of the tasks the log of every map only grows: every step leaves the
\* rows that are there as they are and where they are.
C27_LogOnlyGrows ==
    [][ \A m \in Maps :
          /\ Len(log'[m]) >= Len(log[m])
          /\ \A i \in 1..Len(log[m]) : log'[m][i] = log[m][i] ]_vars
\* two sends were accepted on one map, one task was cancelled, the log was
\* read and holds the messages of both requests
C27_Witness ==
    \E r, q \in Reqs :
        /\ r # q /\ target[r] = 1 /\ target[q] = 1
        /\ endReason[r] = "cancelled" /\ pc[q] = "done"
        /\ listed.status = "http200" /\ Len(listed.messages) >= 2
        /\ MessagesBy(r, 1) # {} /\ MessagesBy(q, 1) # {}
        /\ \E i \in MessagesBy(q, 1) : log[1][i].role = "tool"

\* C28: from the acceptance of a send until its task has left the loop, the
\* key map_lock:<map_id> is present.
C28_LockHeldWhileLooping ==
    \A r \in Reqs : InLoop(r) => lock[target[r]] # NoLock

\* C29: no map stays locked for ever: a lock key that is present is absent
\* at some later time, also when the request or the task that set it ended
\* without deleting it; and a send that then reads the key absent is not
\* answered 409.
C29_LockClearsItself ==
    /\ \A m \in Maps : (lock[m] # NoLock) ~> (lock[m] = NoLock)
    /\ [][ \A q \in Reqs :
             (sendpc[q] = "check" /\ sendpc'[q] # "check" /\ lock[target[q]] = NoLock) =>
                 sendpc'[q] # "http409" ]_vars
\* a task was ended by an exception and never deleted its lock; a later send
\* on its map was accepted
C29_Witness ==
    \E r, q \in Reqs :
        /\ r < q /\ target[r] = target[q]
        /\ pc[r] = "raised"
        /\ sendpc[q] = "http200"

\* C30: every entry into an AsyncDatabaseConnection opens a connection that
\* is new and that no other context holds; the connection stays open while
\* its context is inside the statement and is closed on exit, whether the body
\* completed or raised; two contexts that overlap never have one connection.
Inside(c) == ctx[c] \in {"entered", "leaving"}
C30_ExclusiveConnection ==
    /\ \A c \in Contexts :
          /\ Inside(c) => (conn[c] \in opened \ closed)
          /\ ctx[c] = "exited" => (exc[c] \in {"completed", "raised"} /\ conn[c] \in closed)
          /\ ctx[c] \in {"new", "failed"} => conn[c] = None
    /\ \A c, d \in Contexts :
          (c # d /\ conn[c] # None /\ conn[d] # None) => conn[c] # conn[d]
\* a context was entered while another was inside its statement, raised in
\* its body and was left with its connection closed; the other is still
\* inside with its own connection, and the third could not connect
C30_Witness ==
    \E c, d, e \in Contexts :
        /\ ctx[c] = "entered" /\ ctx[d] = "exited" /\ exc[d] = "raised"
        /\ conn[c] < conn[d] /\ conn[d] \in closed /\ conn[c] \notin closed
        /\ ctx[e] = "failed"

\* C31: within a round the assistant message is in the log before any of its
\* invocations is dispatched, also when it has no invocations; every tool
\* result comes after the assistant message it answers and after the results
\* of the invocations emitted before it; between two handlers exactly the
\* invocations dispatched so far have their result in the log.
ResultsOf(m, id) ==
    {j \in 1..Len(log[m]) : log[m][j].role = "tool" /\ log[m][j].tool_call_id = id}
AssistantOfRound(r) ==
    {i \in 1..Len(log[target[r]]) :
        /\ log[target[r]][i].role = "assistant"
        /\ log[target[r]][i].by = r
        /\ log[target[r]][i].tool_calls # <<>>
        /\ log[target[r]][i].tool_calls[1].id = <<r, round[r], 1>>}
C31_AssistantThenResultsInOrder ==
    /\ \A m \in Maps : \A j \in 1..Len(log[m]) :
          log[m][j].role = "tool" =>
             \E i \in 1..(j - 1) :
                /\ log[m][i].role = "assistant"
                /\ \E k \in 1..Len(log[m][i].tool_calls) :
                      /\ log[m][i].tool_calls[k].id = log[m][j].tool_call_id
                      /\ \A k2 \in 1..(k - 1) :
                            \E j2 \in (i + 1)..(j - 1) :
                               j2 \in ResultsOf(m, log[m][i].tool_calls[k2].id)
    /\ \A r \in Reqs :
          pc[r] = "dispatch" =>
             /\ AssistantOfRound(r) # {}
             /\ \A i \in AssistantOfRound(r) :
                   LET calls == log[target[r]][i].tool_calls
                       done == Len(calls) - Len(pending[r])
                   IN  /\ done >= 0
                       /\ pending[r] = SubSeq(calls, done + 1, Len(calls))
                       /\ \A k \in 1..Len(calls) :
                             (ResultsOf(target[r], calls[k].id) # {}) <=> (k <= done)
    /\ \A r \in Reqs :
          endReason[r] = "tool_free" =>
             \E i \in 1..Len(log[target[r]]) :
                /\ log[target[r]][i].role = "assistant"
                /\ log[target[r]][i].by = r
                /\ log[target[r]][i].tool_calls = <<>>
\* a task whose first answer carried two invocations, answered one after the
\* other right behind it, has ended on an answer without invocations
C31_Witness ==
    \E r \in Reqs :
        /\ endReason[r] = "tool_free"
        /\ \E i \in 1..Len(log[target[r]]) :
              /\ i + 3 <= Len(log[target[r]])
              /\ log[target[r]][i].role = "assistant"
              /\ Len(log[target[r]][i].tool_calls) = 2
              /\ log[target[r]][i + 1].tool_call_id = <<r, 1, 1>>
              /\ log[target[r]][i + 2].tool_call_id = <<r, 1, 2>>
              /\ log[target[r]][i + 3].role = "assistant"
              /\ log[target[r]][i + 3].tool_calls = <<>>

\* C32: a cancel request made while a task dispatches the invocations of a
\* round aborts nothing: the step of cancel_map_message leaves the task where
\* it is, every dispatch step taken with the flag set appends the result of
\* the invocation it handles, and at the start of the next round the task
\* leaves the loop without a model request.
C32_CancelWaitsForRoundEnd ==
    [][ \A r \in Reqs :
          /\ (pc[r] = "dispatch" /\ ~cancelled[target[r]] /\ cancelled'[target[r]]) =>
                 (pc'[r] = pc[r] /\ pending'[r] = pending[r] /\ log' = log)
          /\ (pc[r] = "dispatch" /\ cancelled[target[r]]
                /\ (pc'[r] # pc[r] \/ pending'[r] # pending[r])) =>
                 /\ AppendsBy(r)
                 /\ LastAppended(r).role = "tool"
                 /\ LastAppended(r).tool_call_id = Head(pending[r]).id
                 /\ pending'[r] = Tail(pending[r])
                 /\ pc'[r] = IF Len(pending[r]) > 1 THEN "dispatch" ELSE "top"
          /\ (pc[r] = "top" /\ cancelled[target[r]] /\ pc'[r] # "top") =>
                 (pc'[r] \in {"cancel", "unlock"} /\ modelRequests'[r] = modelRequests[r])
      ]_vars

\* C33: a query_postgis_database invocation that is rejected for its LIMIT
\* (no LIMIT found, or a value above the cap) gets exactly one tool message,
\* with status error; its query is not handed to the external database; the
\* task goes on with the next invocation of the round, or with the next round
\* after the last one.
RejectedForLimit(call) ==
    /\ call.name = QueryTool
    /\ call.postgis_connection_id # NoConnection /\ call.sql_query # NoQuery
    /\ [id |-> call.postgis_connection_id, user_id |-> Owner] \in project_postgres_connections
    /\ (limit_match(call.sql_query) = None \/ limit_value(call.sql_query) > MaxLimit)
LimitClauses(q) ==
    {i \in 1..(Len(q) - 1) :
        /\ Upper(q[i].word) = "LIMIT" /\ ~q[i].quoted
        /\ q[i + 1].digits # <<>> /\ ~q[i + 1].quoted}
C34_OnlyQueriesBelow1000Run ==
    [][ /\ sent' # sent =>
              \E i \in LimitClauses(sent'[Len(sent')].sql_query) :
                 ToInt(sent'[Len(sent')].sql_query[i + 1].digits) < 1000
        /\ \A r \in Reqs :
              (/\ pc[r] = "dispatch"
               /\ Head(pending[r]).name = QueryTool
               /\ \E i \in LimitClauses(Head(pending[r]).sql_query) :
                     ToInt(Head(pending[r]).sql_query[i + 1].digits) >= 1000
               /\ pending'[r] # pending[r]) =>
                  /\ sent' = sent
                  /\ LastAppended(r) = ToolMessage(r, Head(pending[r]).id, "error") ]_vars

\* C35: a step of a send or of a loop on one map, and a cancel on one map,
\* leaves the lock, the cancel flag and the log of every other map as they
\* were; a send is answered 409 only when the lock of its own map is set,
\* whatever the locks of other maps hold.
ChangedOn(m) == lock'[m] # lock[m] \/ cancelled'[m] # cancelled[m] \/ log'[m] # log[m]
StepOf(r) == sendpc'[r] # sendpc[r] \/ pc'[r] # pc[r]
C35_MapsAreIndependent ==
    [][ /\ \A b \in Maps :
              ChangedOn(b) =>
                 /\ \A a \in Maps \ {b} : ~ChangedOn(a)
                 /\ \/ \E r \in Reqs : StepOf(r) /\ target[r] = b
                    \/ /\ \A r \in Reqs : ~StepOf(r)
                       /\ cancelled'[b] /\ lock' = lock /\ log' = log
        /\ \A r \in Reqs :
              (sendpc[r] = "check" /\ sendpc'[r] # "check") =>
                 (sendpc'[r] = "http409" <=> lock[target[r]] # NoLock) ]_vars
\* the loops of two maps are under way at once, each under its own lock
C35_Witness ==
    \E r, q \in Reqs :
        /\ target[r] # target[q] /\ target[r] # NoMap /\ target[q] # NoMap
        /\ pc[r] = "dispatch" /\ pc[q] = "dispatch"
        /\ lock[target[r]] = r /\ lock[target[q]] = q

\* C36: the deletion of the lock key at the end of a loop removes only the
\* entry set by the request that started this loop: when the task deletes,
\* the key is absent or holds the entry of its own request.
C36_UnlockRemovesOwnLock ==
    [][ \A r \in Reqs :
          (pc[r] = "unlock" /\ pc'[r] = "done" /\ lock[target[r]] # NoLock) =>
              lock[target[r]] = r ]_vars

\* C37: while the lock key of a map is present, a request on that map is on
\* its way to schedule a loop or a loop on that map is scheduled or running;
\* no request that failed after setting the lock has left its entry behind.
C37_LockMeansLoop ==
    \A m \in Maps :
        lock[m] # NoLock =>
            /\ \E r \in Reqs : target[r] = m /\ (sendpc[r] = "locked" \/ Running(r))
            /\ sendpc[lock[m]] # "http500"

\* C38: a send or a cancel that names a map without a live row is answered
\* 404, one by a caller who is not the owner of the map 401, and no other is;
\* the step that answers 404 or 401 leaves the lock, the cancel flag and the
\* log of every map as they were and schedules no task.
C38_RefusedRequestsChangeNothing ==
    [][ /\ answered' # answered =>
              /\ (answered'.status = "http404") <=>
                     (answered'.map_id \notin user_mundiai_maps)
              /\ (answered'.status = "http401") <=>
                     (answered'.map_id \in user_mundiai_maps /\ answered'.user # Owner)
              /\ answered'.status \in {"http404", "http401"} =>
                     /\ lock' = lock /\ cancelled' = cancelled /\ log' = log
                     /\ pc' = pc /\ target' = target
        /\ \A r \in Reqs :
              (sendpc'[r] # sendpc[r] /\ sendpc'[r] \in {"http404", "http401"}) =>
                     /\ lock' = lock /\ cancelled' = cancelled /\ log' = log
                     /\ pc' = pc /\ target' = target ]_vars
\* a stranger's cancel was refused while a loop dispatches on the map, after
\* a send had been refused: the flag is not set and the loop goes on
C38_Witness ==
    \E r, q \in Reqs :
        /\ sendpc[q] \in {"http404", "http401"}
        /\ pc[r] = "dispatch" /\ lock[target[r]] = r
        /\ answered = [route |-> "cancel", map_id |-> target[r], user |-> "stranger",
                       status |-> "http401"]
        /\ ~cancelled[target[r]]

\* C39: however the first calls interleave, at most one asyncpg pool and at
\* most one threaded pool are created in the process, and all callers of one
\* function are given the same pool.
C39_OnePoolForAll ==
    /\ Cardinality(created \cap AsyncPools) <= 1
    /\ Cardinality(created \cap ThreadedPools) <= 1
    /\ \A c, d \in Callers :
          (/\ poolpc[c] = "returned" /\ poolpc[d] = "returned"
           /\ \/ (got[c] \in AsyncPools /\ got[d] \in AsyncPools)
              \/ (got[c] \in ThreadedPools /\ got[d] \in ThreadedPools)) =>
              got[c] = got[d]

====
